---------------------------- MODULE Spec2Model ----------------------------
(***************************************************************************)
(* Model of the tadox_proxy regulation core:                               *)
(*   - HybridRegulator.compute_target (hybrid_regulation.py), a function   *)
(*     of (setpoint, room temperature, dt, heating flag, HybridState);     *)
(*   - TadoXProxyClimate._async_regulation_cycle (climate.py), the cycle   *)
(*     that calls the regulator, applies the window override and the       *)
(*     command hygiene, and awaits the actuator write.                     *)
(*                                                                         *)
(* Numbers.  Python floats are modelled as fixed-point integers:           *)
(*   temperatures, bias, integral : 1 unit = 0.0001 degC   (Deg = 1 degC)  *)
(*   trend (dT/dt)                : 1 unit = 1e-6 degC/s                   *)
(*   time                         : 1 unit = 1 s                           *)
(* Products and quotients are rounded to the nearest unit (RDiv).          *)
(***************************************************************************)
EXTENDS Integers, Sequences, FiniteSets, TLC

\* ------------------------------------------------------------------ units
Deg == 10 * 1000                \* one degree Celsius in model units
Tenth == Deg \div 10            \* 0.1 degC, the resolution of round(x, 1)
TrendPerDeg == 10 * 10           \* (1e-6 degC/s) per (1e-4 degC / 1 s)

None == << >>
Some(v) == << v >>
Val(o) == o[1]

Max(a, b) == IF a >= b THEN a ELSE b
Min(a, b) == IF a <= b THEN a ELSE b
Abs(a) == IF a >= 0 THEN a ELSE -a

\* a / b rounded to the nearest integer (b > 0)
RDiv(a, b) == (2 * a + b) \div (2 * b)

\* Python round(x, 1): nearest multiple of 0.1, ties to the even multiple
Round1(x) ==
    LET q == x \div Tenth
        r == x % Tenth
    IN  IF 2 * r < Tenth THEN q * Tenth
        ELSE IF 2 * r > Tenth THEN (q + 1) * Tenth
        ELSE IF q % 2 = 0 THEN q * Tenth ELSE (q + 1) * Tenth


\* ------------------------------------------------- hybrid_regulation.py
HOLD == "hold"
BOOST == "boost"
COAST == "coast"
HybridMode == {HOLD, BOOST, COAST}

\* HybridConfig with the dataclass defaults.
\*   kp = kp_x10 / 10, ki_small = 1 / ki_small_inv, dTdt_alpha = alpha_pct / 100;
\*   the *_per_min trend thresholds are in 1e-6 degC per minute.
HybridConfigDefault ==
    [ min_target_c |-> 5 * Deg,
      max_target_c |-> 25 * Deg,
      max_offset_c |-> 8 * Deg,
      kp_x10 |-> 50,
      ki_small_inv |-> 5000,
      i_small_min_c |-> -2 * Deg,
      i_small_max_c |-> 2 * Deg,
      bias_tau_s |-> 4 * 3600,
      bias_deadband_c |-> Tenth,
      bias_trend_max_c_per_min |-> 10000,
      bias_rate_limit_c_per_h |-> Deg \div 2,
      bias_min_c |-> -5 * Deg,
      bias_max_c |-> 5 * Deg,
      dTdt_alpha_pct |-> 25,
      trend_drop_threshold_c_per_min |-> -30000,
      trend_rise_threshold_c_per_min |-> 30000,
      predict_horizon_s |-> 900,
      overshoot_guard_c |-> 2 * Tenth,
      window_open_enabled |-> TRUE,
      window_open_drop_threshold_c_per_min |-> -200000,
      window_open_hold_minutes |-> 15,
      hold_deadband_c |-> Tenth,
      boost_error_on_c |-> 6 * Tenth,
      boost_error_off_c |-> 2 * Tenth,
      boost_target_c |-> 25 * Deg,
      boost_max_minutes |-> 30,
      coast_error_on_c |-> -3 * Tenth,
      coast_error_off_c |-> -Tenth,
      coast_target_c |-> 7 * Deg ]

\* A fresh HybridState(); mode_entered_monotonic_s is time.monotonic() at
\* construction.
HybridStateFresh(now_mono) ==
    [ mode |-> HOLD,
      bias_c |-> 0,
      i_small_c |-> 0,
      dTdt_ema_c_per_s |-> 0,
      last_room_temp_c |-> None,
      mode_entered_monotonic_s |-> now_mono,
      window_open_until_monotonic_s |-> 0 ]

\* mutant: the absolute clamp is left out
ClampAbsoluteTarget_NoAbs(cfg, setpoint_c, target_c) ==
    Round1(Max(setpoint_c - cfg.max_offset_c, Min(setpoint_c + cfg.max_offset_c, target_c)))

\* mutant: the relative clamp is left out
ClampAbsoluteTarget_NoRel(cfg, setpoint_c, target_c) ==
    Round1(Max(cfg.min_target_c, Min(cfg.max_target_c, target_c)))

\* mutant: the lower relative clamp is left out
ClampAbsoluteTarget_NoRelMin(cfg, setpoint_c, target_c) ==
    Round1(Max(cfg.min_target_c,
               Min(cfg.max_target_c, Min(setpoint_c + cfg.max_offset_c, target_c))))

\* HybridRegulator._clamp_absolute_target
ClampAbsoluteTarget(cfg, setpoint_c, target_c) ==
    LET rel_min == setpoint_c - cfg.max_offset_c
        rel_max == setpoint_c + cfg.max_offset_c
        rel == Max(rel_min, Min(rel_max, target_c))
        clamped == Max(cfg.min_target_c, Min(cfg.max_target_c, rel))
    IN  Round1(clamped)

\* HybridRegulator._update_trend: EMA of dT/dt
UpdateTrend(cfg, room_temp_c, dt_s, state) ==
    IF dt_s <= 0 \/ state.last_room_temp_c = None
    THEN state.dTdt_ema_c_per_s
    ELSE LET raw == RDiv((room_temp_c - Val(state.last_room_temp_c)) * TrendPerDeg, dt_s)
         IN  RDiv(cfg.dTdt_alpha_pct * raw
                    + (100 - cfg.dTdt_alpha_pct) * state.dTdt_ema_c_per_s, 100)

\* mutant: the absolute clamp of the bias is left out
UpdateBias_NoClamp(cfg, bias_c, error_c, dTdt_ema_c_per_s, dt_s) ==
    IF Abs(error_c) > cfg.bias_deadband_c THEN bias_c
    ELSE IF Abs(dTdt_ema_c_per_s * 60) > cfg.bias_trend_max_c_per_min THEN bias_c
    ELSE
      LET step == IF cfg.bias_tau_s > 0 /\ dt_s > 0
                  THEN (IF dt_s >= cfg.bias_tau_s THEN error_c
                        ELSE RDiv(error_c * dt_s, cfg.bias_tau_s))
                  ELSE 0
          desired == bias_c + step
          max_step == RDiv(cfg.bias_rate_limit_c_per_h * dt_s, 3600)
      IN  IF desired > bias_c + max_step THEN bias_c + max_step
          ELSE IF desired < bias_c - max_step THEN bias_c - max_step
          ELSE desired

\* mutant: the bias takes the whole error at once, without low-pass and
\* rate limit
UpdateBias_Jump(cfg, bias_c, error_c, dTdt_ema_c_per_s, dt_s) ==
    IF Abs(error_c) > cfg.bias_deadband_c THEN bias_c
    ELSE IF Abs(dTdt_ema_c_per_s * 60) > cfg.bias_trend_max_c_per_min THEN bias_c
    ELSE Max(cfg.bias_min_c, Min(cfg.bias_max_c, bias_c + error_c))

\* mutant: the bias also learns while the room temperature is moving
UpdateBias_NoTrendGate(cfg, bias_c, error_c, dTdt_ema_c_per_s, dt_s) ==
    IF Abs(error_c) > cfg.bias_deadband_c THEN bias_c
    ELSE
      LET step == IF cfg.bias_tau_s > 0 /\ dt_s > 0
                  THEN (IF dt_s >= cfg.bias_tau_s THEN error_c
                        ELSE RDiv(error_c * dt_s, cfg.bias_tau_s))
                  ELSE 0
          desired == Max(cfg.bias_min_c, Min(cfg.bias_max_c, bias_c + step))
          max_step == RDiv(cfg.bias_rate_limit_c_per_h * dt_s, 3600)
      IN  IF desired > bias_c + max_step THEN bias_c + max_step
          ELSE IF desired < bias_c - max_step THEN bias_c - max_step
          ELSE desired

\* HybridRegulator._update_bias: slow offset learning near steady state
UpdateBias(cfg, bias_c, error_c, dTdt_ema_c_per_s, dt_s) ==
    IF Abs(error_c) > cfg.bias_deadband_c THEN bias_c
    ELSE IF Abs(dTdt_ema_c_per_s * 60) > cfg.bias_trend_max_c_per_min THEN bias_c
    ELSE
      LET step == IF cfg.bias_tau_s > 0 /\ dt_s > 0
                  THEN (IF dt_s >= cfg.bias_tau_s THEN error_c
                        ELSE RDiv(error_c * dt_s, cfg.bias_tau_s))
                  ELSE 0
          desired == Max(cfg.bias_min_c, Min(cfg.bias_max_c, bias_c + step))
          max_step == RDiv(cfg.bias_rate_limit_c_per_h * dt_s, 3600)
      IN  IF desired > bias_c + max_step THEN bias_c + max_step
          ELSE IF desired < bias_c - max_step THEN bias_c - max_step
          ELSE desired

\* mutant: BOOST is left at the off-threshold whatever the trend
DecideMode_BoostIgnoresTrend(cfg, setpoint_c, error_c, dTdt_ema_c_per_s, predicted_temp_c, state, now) ==
    LET trend_per_min == dTdt_ema_c_per_s * 60
        predicted_overshoot ==
            /\ predicted_temp_c # None
            /\ Val(predicted_temp_c) >= setpoint_c + cfg.overshoot_guard_c
    IN  IF state.mode = BOOST THEN
            IF now - state.mode_entered_monotonic_s >= cfg.boost_max_minutes * 60
            THEN [mode |-> HOLD, reason |-> "boost_timeout"]
            ELSE IF error_c <= cfg.boost_error_off_c
            THEN [mode |-> HOLD, reason |-> "boost_recovered"]
            ELSE [mode |-> BOOST, reason |-> "boost_active"]
        ELSE IF state.mode = COAST THEN
            IF error_c >= cfg.coast_error_off_c
            THEN [mode |-> HOLD, reason |-> "coast_recovered"]
            ELSE [mode |-> COAST, reason |-> "coast_active"]
        ELSE IF error_c <= cfg.coast_error_on_c \/ predicted_overshoot
            THEN [mode |-> COAST, reason |-> "coast_enter"]
        ELSE IF \/ error_c >= cfg.boost_error_on_c
                \/ trend_per_min <= cfg.trend_drop_threshold_c_per_min
            THEN [mode |-> BOOST, reason |-> "boost_enter"]
        ELSE IF /\ Abs(error_c) <= cfg.hold_deadband_c
                /\ trend_per_min >= cfg.trend_rise_threshold_c_per_min
            THEN [mode |-> HOLD, reason |-> "hold_near_target_rising"]
        ELSE [mode |-> HOLD, reason |-> "hold_normal"]

\* mutant: HOLD enters BOOST on a falling trend only, never on the error
DecideMode_NoBoostOnError(cfg, setpoint_c, error_c, dTdt_ema_c_per_s, predicted_temp_c, state, now) ==
    LET trend_per_min == dTdt_ema_c_per_s * 60
        predicted_overshoot ==
            /\ predicted_temp_c # None
            /\ Val(predicted_temp_c) >= setpoint_c + cfg.overshoot_guard_c
    IN  IF state.mode = BOOST THEN
            IF now - state.mode_entered_monotonic_s >= cfg.boost_max_minutes * 60
            THEN [mode |-> HOLD, reason |-> "boost_timeout"]
            ELSE IF /\ error_c <= cfg.boost_error_off_c
                    /\ trend_per_min > cfg.trend_drop_threshold_c_per_min
            THEN [mode |-> HOLD, reason |-> "boost_recovered"]
            ELSE [mode |-> BOOST, reason |-> "boost_active"]
        ELSE IF state.mode = COAST THEN
            IF error_c >= cfg.coast_error_off_c
            THEN [mode |-> HOLD, reason |-> "coast_recovered"]
            ELSE [mode |-> COAST, reason |-> "coast_active"]
        ELSE IF error_c <= cfg.coast_error_on_c \/ predicted_overshoot
            THEN [mode |-> COAST, reason |-> "coast_enter"]
        ELSE IF trend_per_min <= cfg.trend_drop_threshold_c_per_min
            THEN [mode |-> BOOST, reason |-> "boost_enter"]
        ELSE IF /\ Abs(error_c) <= cfg.hold_deadband_c
                /\ trend_per_min >= cfg.trend_rise_threshold_c_per_min
            THEN [mode |-> HOLD, reason |-> "hold_near_target_rising"]
        ELSE [mode |-> HOLD, reason |-> "hold_normal"]

\* mutant: from HOLD the BOOST entry is tested before the COAST entry
DecideMode_BoostBeforeCoast(cfg, setpoint_c, error_c, dTdt_ema_c_per_s, predicted_temp_c, state, now) ==
    LET trend_per_min == dTdt_ema_c_per_s * 60
        predicted_overshoot ==
            /\ predicted_temp_c # None
            /\ Val(predicted_temp_c) >= setpoint_c + cfg.overshoot_guard_c
    IN  IF state.mode = BOOST THEN
            IF now - state.mode_entered_monotonic_s >= cfg.boost_max_minutes * 60
            THEN [mode |-> HOLD, reason |-> "boost_timeout"]
            ELSE IF /\ error_c <= cfg.boost_error_off_c
                    /\ trend_per_min > cfg.trend_drop_threshold_c_per_min
            THEN [mode |-> HOLD, reason |-> "boost_recovered"]
            ELSE [mode |-> BOOST, reason |-> "boost_active"]
        ELSE IF state.mode = COAST THEN
            IF error_c >= cfg.coast_error_off_c
            THEN [mode |-> HOLD, reason |-> "coast_recovered"]
            ELSE [mode |-> COAST, reason |-> "coast_active"]
        ELSE IF \/ error_c >= cfg.boost_error_on_c
                \/ trend_per_min <= cfg.trend_drop_threshold_c_per_min
            THEN [mode |-> BOOST, reason |-> "boost_enter"]
        ELSE IF error_c <= cfg.coast_error_on_c \/ predicted_overshoot
            THEN [mode |-> COAST, reason |-> "coast_enter"]
        ELSE IF /\ Abs(error_c) <= cfg.hold_deadband_c
                /\ trend_per_min >= cfg.trend_rise_threshold_c_per_min
            THEN [mode |-> HOLD, reason |-> "hold_near_target_rising"]
        ELSE [mode |-> HOLD, reason |-> "hold_normal"]

\* mutant: BOOST has no time limit
DecideMode_NoBoostTimeout(cfg, setpoint_c, error_c, dTdt_ema_c_per_s, predicted_temp_c, state, now) ==
    LET trend_per_min == dTdt_ema_c_per_s * 60
        predicted_overshoot ==
            /\ predicted_temp_c # None
            /\ Val(predicted_temp_c) >= setpoint_c + cfg.overshoot_guard_c
    IN  IF state.mode = BOOST THEN
            IF /\ error_c <= cfg.boost_error_off_c
               /\ trend_per_min > cfg.trend_drop_threshold_c_per_min
            THEN [mode |-> HOLD, reason |-> "boost_recovered"]
            ELSE [mode |-> BOOST, reason |-> "boost_active"]
        ELSE IF state.mode = COAST THEN
            IF error_c >= cfg.coast_error_off_c
            THEN [mode |-> HOLD, reason |-> "coast_recovered"]
            ELSE [mode |-> COAST, reason |-> "coast_active"]
        ELSE IF error_c <= cfg.coast_error_on_c \/ predicted_overshoot
            THEN [mode |-> COAST, reason |-> "coast_enter"]
        ELSE IF \/ error_c >= cfg.boost_error_on_c
                \/ trend_per_min <= cfg.trend_drop_threshold_c_per_min
            THEN [mode |-> BOOST, reason |-> "boost_enter"]
        ELSE IF /\ Abs(error_c) <= cfg.hold_deadband_c
                /\ trend_per_min >= cfg.trend_rise_threshold_c_per_min
            THEN [mode |-> HOLD, reason |-> "hold_near_target_rising"]
        ELSE [mode |-> HOLD, reason |-> "hold_normal"]

\* HybridRegulator._decide_mode: the BOOST / HOLD / COAST transitions
DecideMode(cfg, setpoint_c, error_c, dTdt_ema_c_per_s, predicted_temp_c, state, now) ==
    LET trend_per_min == dTdt_ema_c_per_s * 60
        predicted_overshoot ==
            /\ predicted_temp_c # None
            /\ Val(predicted_temp_c) >= setpoint_c + cfg.overshoot_guard_c
    IN  IF state.mode = BOOST THEN
            IF now - state.mode_entered_monotonic_s >= cfg.boost_max_minutes * 60
            THEN [mode |-> HOLD, reason |-> "boost_timeout"]
            ELSE IF /\ error_c <= cfg.boost_error_off_c
                    /\ trend_per_min > cfg.trend_drop_threshold_c_per_min
            THEN [mode |-> HOLD, reason |-> "boost_recovered"]
            ELSE [mode |-> BOOST, reason |-> "boost_active"]
        ELSE IF state.mode = COAST THEN
            IF error_c >= cfg.coast_error_off_c
            THEN [mode |-> HOLD, reason |-> "coast_recovered"]
            ELSE [mode |-> COAST, reason |-> "coast_active"]
        ELSE IF error_c <= cfg.coast_error_on_c \/ predicted_overshoot
            THEN [mode |-> COAST, reason |-> "coast_enter"]
        ELSE IF \/ error_c >= cfg.boost_error_on_c
                \/ trend_per_min <= cfg.trend_drop_threshold_c_per_min
            THEN [mode |-> BOOST, reason |-> "boost_enter"]
        ELSE IF /\ Abs(error_c) <= cfg.hold_deadband_c
                /\ trend_per_min >= cfg.trend_rise_threshold_c_per_min
            THEN [mode |-> HOLD, reason |-> "hold_near_target_rising"]
        ELSE [mode |-> HOLD, reason |-> "hold_normal"]


\* mutant: the trend-based window latch never acts
WindowLatch_Never(cfg, state, dt, dTdt_ema, now_mono) ==
    [ active |-> FALSE, detect |-> FALSE ]

\* compute_target, "Window-open detection / latch": is the latch still
\* active, and if not, does this call detect a very fast drop and arm it?
WindowLatch(cfg, state, dt, dTdt_ema, now_mono) ==
    LET active == cfg.window_open_enabled
                  /\ now_mono < state.window_open_until_monotonic_s
    IN  [ active |-> active,
          detect |-> /\ cfg.window_open_enabled
                     /\ ~active
                     /\ state.last_room_temp_c # None
                     /\ dt > 0
                     /\ dTdt_ema * 60 <= cfg.window_open_drop_threshold_c_per_min ]

\* mutant: the heating-disabled branch forgets the learned bias and the
\* window latch
HeatingDisabled_Resets(cfg, setpoint_c, room_temp_c, e, dTdt_ema, state) ==
    LET new_state == [ mode |-> COAST,
                       bias_c |-> 0,
                       i_small_c |-> state.i_small_c,
                       dTdt_ema_c_per_s |-> dTdt_ema,
                       last_room_temp_c |-> Some(room_temp_c),
                       mode_entered_monotonic_s |-> state.mode_entered_monotonic_s,
                       window_open_until_monotonic_s |-> 0 ]
    IN  [ target_c |-> ClampAbsoluteTarget(cfg, setpoint_c, cfg.coast_target_c),
          mode |-> COAST,
          error_c |-> e,
          p_term_c |-> 0,
          predicted_temp_c |-> None,
          new_state |-> new_state,
          mode_reason |-> "heating_disabled",
          raw_target |-> cfg.coast_target_c,
          window_open_triggered |-> FALSE ]

\* compute_target, "If heating disabled, force COAST-like behavior": the
\* early return; e and dTdt_ema are the error and the updated trend
HeatingDisabled(cfg, setpoint_c, room_temp_c, e, dTdt_ema, state) ==
    LET new_state == [ mode |-> COAST,
                       bias_c |-> state.bias_c,
                       i_small_c |-> state.i_small_c,
                       dTdt_ema_c_per_s |-> dTdt_ema,
                       last_room_temp_c |-> Some(room_temp_c),
                       mode_entered_monotonic_s |-> state.mode_entered_monotonic_s,
                       window_open_until_monotonic_s |-> state.window_open_until_monotonic_s ]
    IN  [ target_c |-> ClampAbsoluteTarget(cfg, setpoint_c, cfg.coast_target_c),
          mode |-> COAST,
          error_c |-> e,
          p_term_c |-> 0,
          predicted_temp_c |-> None,
          new_state |-> new_state,
          mode_reason |-> "heating_disabled",
          raw_target |-> cfg.coast_target_c,
          window_open_triggered |-> FALSE ]

\* HybridRegulator.compute_target.  now_mono is what time.monotonic() returns
\* during the call.
ComputeTarget(cfg, setpoint_c, room_temp_c, time_delta_s, state, heating_enabled, now_mono) ==
    LET dt == Max(0, time_delta_s)
        e == setpoint_c - room_temp_c
        dTdt_ema == UpdateTrend(cfg, room_temp_c, dt, state)
    IN
    IF ~heating_enabled THEN HeatingDisabled(cfg, setpoint_c, room_temp_c, e, dTdt_ema, state)
    ELSE
        LET latch == WindowLatch(cfg, state, dt, dTdt_ema, now_mono)
            latch_active == latch.active
            latch_detect == latch.detect
            window_open_until == IF latch_detect
                                 THEN now_mono + cfg.window_open_hold_minutes * 60
                                 ELSE state.window_open_until_monotonic_s
            predicted == IF cfg.predict_horizon_s > 0
                         THEN Some(room_temp_c
                                   + RDiv(dTdt_ema * cfg.predict_horizon_s, TrendPerDeg))
                         ELSE None
            decided == IF latch_active
                       THEN [mode |-> COAST, reason |-> "window_open_active"]
                       ELSE IF latch_detect
                       THEN [mode |-> COAST, reason |-> "window_open_detected"]
                       ELSE DecideMode(cfg, setpoint_c, e, dTdt_ema, predicted, state, now_mono)
            mode == decided.mode
            bias_c == IF mode = HOLD /\ dt > 0
                      THEN UpdateBias(cfg, state.bias_c, e, dTdt_ema, dt)
                      ELSE state.bias_c
            base == setpoint_c + bias_c
            p_term == RDiv(cfg.kp_x10 * e, 10)
            tentative_i == IF cfg.ki_small_inv > 0 /\ dt > 0
                           THEN Max(cfg.i_small_min_c,
                                    Min(cfg.i_small_max_c,
                                        state.i_small_c + RDiv(e * dt, cfg.ki_small_inv)))
                           ELSE state.i_small_c
            hold_raw == base + p_term + tentative_i
            hold_clamped == ClampAbsoluteTarget(cfg, setpoint_c, hold_raw)
            raw_target == IF mode = BOOST THEN Max(cfg.boost_target_c, base + p_term)
                          ELSE IF mode = COAST THEN cfg.coast_target_c
                          ELSE hold_clamped
            i_small_next == IF mode = HOLD /\ hold_clamped = hold_raw
                            THEN tentative_i
                            ELSE state.i_small_c
            new_state == [ mode |-> mode,
                           bias_c |-> bias_c,
                           i_small_c |-> i_small_next,
                           dTdt_ema_c_per_s |-> dTdt_ema,
                           last_room_temp_c |-> Some(room_temp_c),
                           mode_entered_monotonic_s |->
                               IF mode # state.mode THEN now_mono
                               ELSE state.mode_entered_monotonic_s,
                           window_open_until_monotonic_s |-> window_open_until ]
        IN  [ target_c |-> ClampAbsoluteTarget(cfg, setpoint_c, raw_target),
              mode |-> mode,
              error_c |-> e,
              p_term_c |-> p_term,
              predicted_temp_c |-> predicted,
              new_state |-> new_state,
              mode_reason |-> decided.reason,
              raw_target |-> raw_target,
              window_open_triggered |-> latch_detect ]


\* ------------------------------------------------------- parameters.py
FROST_PROTECT_C == 50000
RATE_LIMIT_DECREASE_EPS_C == 500

\* RegulationConfig defaults used by the climate entity
RegMinTargetC == 5 * Deg
RegMaxTargetC == 25 * Deg
MinCommandIntervalS == 300
PidTuningKpX10 == 12
PidTuningKiInv == 100

\* The HybridConfig that TadoXProxyClimate.__init__ builds: limits from
\* RegulationConfig, coast target = frost protection, gains from the PID
\* tuning (ki_small = min(ki, 0.001)), trend-based window detection off.
\* float("nan"): the value a sensor state "nan" is read as.  Every ordered
\* comparison with it is false in the code; the definitions that meet it
\* take that branch explicitly and never compute with it.
NaN == -1000 * Deg

\* HybridRegulator.compute_target when room_temp_c is NaN and the state holds
\* finite values.  error, p_term and predicted are NaN, and so is the trend
\* when it is updated; every comparison with them is false; Python's
\* min(a, nan) and max(a, nan) return a.
ComputeTargetNaN(cfg, setpoint_c, time_delta_s, state, heating_enabled, now_mono) ==
    LET dt == Max(0, time_delta_s)
        trend_nan == dt > 0 /\ state.last_room_temp_c # None
        dTdt_ema == IF trend_nan THEN NaN ELSE state.dTdt_ema_c_per_s
    IN
    IF ~heating_enabled THEN
        [ target_c |-> ClampAbsoluteTarget(cfg, setpoint_c, cfg.coast_target_c),
          mode |-> COAST,
          error_c |-> NaN,
          p_term_c |-> 0,
          predicted_temp_c |-> None,
          new_state |-> [ state EXCEPT !.mode = COAST,
                                       !.dTdt_ema_c_per_s = dTdt_ema,
                                       !.last_room_temp_c = Some(NaN) ],
          mode_reason |-> "heating_disabled",
          raw_target |-> cfg.coast_target_c,
          window_open_triggered |-> FALSE ]
    ELSE
        LET latch_active == cfg.window_open_enabled
                            /\ now_mono < state.window_open_until_monotonic_s
            \* _decide_mode with error NaN: only the BOOST timeout and, from
            \* HOLD with a finite trend, the falling-trend entry can be true
            decided ==
                IF latch_active THEN [mode |-> COAST, reason |-> "window_open_active"]
                ELSE IF state.mode = BOOST THEN
                    IF now_mono - state.mode_entered_monotonic_s >= cfg.boost_max_minutes * 60
                    THEN [mode |-> HOLD, reason |-> "boost_timeout"]
                    ELSE [mode |-> BOOST, reason |-> "boost_active"]
                ELSE IF state.mode = COAST THEN [mode |-> COAST, reason |-> "coast_active"]
                ELSE IF ~trend_nan
                        /\ dTdt_ema * 60 <= cfg.trend_drop_threshold_c_per_min
                THEN [mode |-> BOOST, reason |-> "boost_enter"]
                ELSE [mode |-> HOLD, reason |-> "hold_normal"]
            mode == decided.mode
            \* _update_bias: both gates are passed unless a finite trend
            \* fails the second; desired_bias is NaN, clamped to bias_max_c,
            \* then rate-limited
            max_step == RDiv(cfg.bias_rate_limit_c_per_h * dt, 3600)
            bias_c == IF mode = HOLD /\ dt > 0
                         /\ (trend_nan
                             \/ Abs(dTdt_ema * 60) <= cfg.bias_trend_max_c_per_min)
                      THEN Min(cfg.bias_max_c, state.bias_c + max_step)
                      ELSE state.bias_c
            \* HOLD: raw_target is NaN, the clamp returns the upper relative
            \* bound (absolutely clamped), and clamped != raw_target rejects
            \* the integral
            raw_target == IF mode = BOOST THEN cfg.boost_target_c
                          ELSE IF mode = COAST THEN cfg.coast_target_c
                          ELSE ClampAbsoluteTarget(cfg, setpoint_c,
                                                   setpoint_c + cfg.max_offset_c)
        IN  [ target_c |-> ClampAbsoluteTarget(cfg, setpoint_c, raw_target),
              mode |-> mode,
              error_c |-> NaN,
              p_term_c |-> NaN,
              predicted_temp_c |-> IF cfg.predict_horizon_s > 0 THEN Some(NaN) ELSE None,
              new_state |-> [ state EXCEPT
                                !.mode = mode,
                                !.bias_c = bias_c,
                                !.dTdt_ema_c_per_s = dTdt_ema,
                                !.last_room_temp_c = Some(NaN),
                                !.mode_entered_monotonic_s =
                                    IF mode # state.mode THEN now_mono
                                    ELSE state.mode_entered_monotonic_s ],
              mode_reason |-> decided.reason,
              raw_target |-> raw_target,
              window_open_triggered |-> FALSE ]

HybridConfigProxy ==
    [ HybridConfigDefault EXCEPT
        !.min_target_c = RegMinTargetC,
        !.max_target_c = RegMaxTargetC,
        !.coast_target_c = FROST_PROTECT_C,
        !.kp_x10 = PidTuningKpX10,
        !.ki_small_inv = Max(PidTuningKiInv, 1000),
        !.window_open_enabled = FALSE ]

\* ----------------------------------------------------------- climate.py
MIN_SEND_DELTA_C == 2000
MAX_STEP_UP_C == 5000
FAST_RECOVERY_MIN_INTERVAL_S == 20
FAST_RECOVERY_MAX_STEP_UP_C == 20000
FAST_RECOVERY_ERROR_C == 15000
FAST_RECOVERY_TARGET_GAP_C == 30000
FROSTISH_C == 75000
FROST_EXIT_JUMP_GAP_C == 80000
\* the literal 0.05 of "command_target_c > current_sp + 0.05"
STEP_UP_EPS_C == 500
\* the literal 0.2 of "(desired_target_c - tado_setpoint) > 0.2"
FAST_TICK_GAP_C == 2000
DEFAULT_CONTROL_INTERVAL_S == 300

HEAT == "heat"
OFF == "off"
HvacModes == {HEAT, OFF}

\* variant: the close hold never runs out
ComputeWindowState_HoldForever(wc, open_active, open_deadline, close_deadline, now_m) ==
    LET idle == [ forced |-> FALSE, reason |-> "none", pending |-> FALSE,
                  open_rem |-> 0, close_rem |-> 0,
                  open_deadline |-> open_deadline, schedule_open |-> FALSE ]
    IN
    IF ~wc.enabled THEN idle
    ELSE IF open_active THEN
        LET delay_s == Max(0, wc.open_delay_s) IN
        IF delay_s <= 0
        THEN [ idle EXCEPT !.forced = TRUE, !.reason = "window_open_forced" ]
        ELSE
          LET dl == IF open_deadline = None THEN now_m + delay_s ELSE Val(open_deadline)
              rem == Max(0, dl - now_m)
              set == [ idle EXCEPT !.open_deadline = Some(dl),
                                   !.schedule_open = (open_deadline = None) ]
          IN  IF rem <= 0
              THEN [ set EXCEPT !.forced = TRUE, !.reason = "window_open_forced" ]
              ELSE [ set EXCEPT !.reason = "window_open_pending",
                                !.pending = TRUE, !.open_rem = rem ]
    ELSE
        LET hold_s == Max(0, wc.close_delay_s) IN
        IF hold_s <= 0 \/ close_deadline = None THEN idle
        ELSE LET rem == Max(0, Val(close_deadline) - now_m) IN
             IF rem < 0 THEN idle
             ELSE [ idle EXCEPT !.forced = TRUE, !.reason = "window_close_hold",
                                !.close_rem = rem ]

\* TadoXProxyClimate._compute_window_state.  wc is the window configuration
\* (enabled with a sensor, open delay, close hold); the result also carries
\* the open deadline the method may set and whether it (re)schedules the
\* open timer.
ComputeWindowState(wc, open_active, open_deadline, close_deadline, now_m) ==
    LET idle == [ forced |-> FALSE, reason |-> "none", pending |-> FALSE,
                  open_rem |-> 0, close_rem |-> 0,
                  open_deadline |-> open_deadline, schedule_open |-> FALSE ]
    IN
    IF ~wc.enabled THEN idle
    ELSE IF open_active THEN
        LET delay_s == Max(0, wc.open_delay_s) IN
        IF delay_s <= 0
        THEN [ idle EXCEPT !.forced = TRUE, !.reason = "window_open_forced" ]
        ELSE
          LET dl == IF open_deadline = None THEN now_m + delay_s ELSE Val(open_deadline)
              rem == Max(0, dl - now_m)
              set == [ idle EXCEPT !.open_deadline = Some(dl),
                                   !.schedule_open = (open_deadline = None) ]
          IN  IF rem <= 0
              THEN [ set EXCEPT !.forced = TRUE, !.reason = "window_open_forced" ]
              ELSE [ set EXCEPT !.reason = "window_open_pending",
                                !.pending = TRUE, !.open_rem = rem ]
    ELSE
        LET hold_s == Max(0, wc.close_delay_s) IN
        IF hold_s <= 0 \/ close_deadline = None THEN idle
        ELSE LET rem == Max(0, Val(close_deadline) - now_m) IN
             IF rem <= 0 THEN idle
             ELSE [ idle EXCEPT !.forced = TRUE, !.reason = "window_close_hold",
                                !.close_rem = rem ]

\* Fast-recovery selection of _async_regulation_cycle
\* mutant: only BOOST starts fast recovery
FastRecovery_BoostOnly(window_forced, hvac_mode, reg_mode, room_error_c, target_gap_c) ==
    IF ~window_forced /\ hvac_mode # OFF THEN
        IF reg_mode = BOOST THEN [active |-> TRUE, reason |-> "boost"]
        ELSE [active |-> FALSE, reason |-> "none"]
    ELSE [active |-> FALSE, reason |-> "none"]

FastRecovery(window_forced, hvac_mode, reg_mode, room_error_c, target_gap_c) ==
    IF ~window_forced /\ hvac_mode # OFF THEN
        IF reg_mode = BOOST THEN [active |-> TRUE, reason |-> "boost"]
        ELSE IF room_error_c >= FAST_RECOVERY_ERROR_C
            THEN [active |-> TRUE, reason |-> "room_error"]
        ELSE IF target_gap_c >= FAST_RECOVERY_TARGET_GAP_C
            THEN [active |-> TRUE, reason |-> "target_gap"]
        ELSE [active |-> FALSE, reason |-> "none"]
    ELSE [active |-> FALSE, reason |-> "none"]

EffectiveMinInterval(fast_active, base_interval_s) ==
    IF fast_active THEN Min(base_interval_s, FAST_RECOVERY_MIN_INTERVAL_S)
    ELSE base_interval_s

EffectiveStepUp(fast_active) ==
    IF fast_active THEN Max(MAX_STEP_UP_C, FAST_RECOVERY_MAX_STEP_UP_C)
    ELSE MAX_STEP_UP_C

\* "Resume from window: allow ONE immediate jump to desired"
ResumeJumpAllowed(resume_from_window, tado_sp, desired_target_c) ==
    /\ resume_from_window
    /\ tado_sp # None
    /\ Val(tado_sp) <= FROSTISH_C
    /\ desired_target_c - Val(tado_sp) >= FROST_EXIT_JUMP_GAP_C

\* variant: upward moves are never stepped
CommandTarget_NoStep(desired_target_c, tado_sp, resume_jump_allowed, max_step) ==
    [ command_target_c |-> Round1(desired_target_c),
      step_limited |-> FALSE,
      step_up_limit_c |-> None ]

\* "Build command target": upward moves are stepped unless the resume jump
\* is allowed
CommandTarget(desired_target_c, tado_sp, resume_jump_allowed, max_step) ==
    IF tado_sp # None /\ desired_target_c > Val(tado_sp) + STEP_UP_EPS_C
                      /\ ~resume_jump_allowed
    THEN LET stepped == Min(desired_target_c, Val(tado_sp) + max_step)
         IN  [ command_target_c |-> Round1(Round1(stepped)),
               step_limited |-> (stepped # desired_target_c),
               step_up_limit_c |-> Some(max_step) ]
    ELSE [ command_target_c |-> Round1(desired_target_c),
           step_limited |-> FALSE,
           step_up_limit_c |-> None ]

\* variant: window forcing gives a decrease no bypass
SendOverrides_NoForced(base, tado_sp, command_target_c, window_forced, resume_jump_allowed) ==
    IF /\ resume_jump_allowed /\ tado_sp # None
       /\ command_target_c > Val(tado_sp) + STEP_UP_EPS_C
    THEN [should_send |-> TRUE, reason |-> "window_resume_jump"]
    ELSE base

\* Overrides applied after the base decision: window forcing, then the
\* resume jump.
SendOverrides(base, tado_sp, command_target_c, window_forced, resume_jump_allowed) ==
    LET forced ==
          IF /\ window_forced /\ tado_sp # None
             /\ command_target_c < Val(tado_sp) - RATE_LIMIT_DECREASE_EPS_C
          THEN [should_send |-> TRUE, reason |-> "window_forced_urgent_decrease"]
          ELSE base
    IN  IF /\ resume_jump_allowed /\ tado_sp # None
           /\ command_target_c > Val(tado_sp) + STEP_UP_EPS_C
        THEN [should_send |-> TRUE, reason |-> "window_resume_jump"]
        ELSE forced

\* variant: a decrease inside the rate-limit window is held back like any change
SendDecision_NoUrgentDecrease(tado_sp, command_target_c, now_wall, last_command_sent_ts, eff_interval_s, window_forced, resume_jump_allowed) ==
    SendOverrides(
        IF tado_sp = None
        THEN [should_send |-> TRUE, reason |-> "init_unknown_current_setpoint"]
        ELSE IF Abs(command_target_c - Val(tado_sp)) < MIN_SEND_DELTA_C
        THEN [should_send |-> FALSE, reason |-> "min_delta_guard"]
        ELSE IF (now_wall - last_command_sent_ts) < eff_interval_s
        THEN [should_send |-> FALSE, reason |-> "rate_limited"]
        ELSE [should_send |-> TRUE, reason |-> "normal_update"],
        tado_sp, command_target_c, window_forced, resume_jump_allowed)

\* variant: no minimum-delta guard
SendDecision_NoMinDelta(tado_sp, command_target_c, now_wall, last_command_sent_ts, eff_interval_s, window_forced, resume_jump_allowed) ==
    SendOverrides(
        IF tado_sp = None
        THEN [should_send |-> TRUE, reason |-> "init_unknown_current_setpoint"]
        ELSE IF (now_wall - last_command_sent_ts) < eff_interval_s
        THEN IF command_target_c < Val(tado_sp) - RATE_LIMIT_DECREASE_EPS_C
             THEN [should_send |-> TRUE, reason |-> "urgent_decrease"]
             ELSE [should_send |-> FALSE, reason |-> "rate_limited"]
        ELSE [should_send |-> TRUE, reason |-> "normal_update"],
        tado_sp, command_target_c, window_forced, resume_jump_allowed)

\* variant: no rate limit
SendDecision_NoRateLimit(tado_sp, command_target_c, now_wall, last_command_sent_ts, eff_interval_s, window_forced, resume_jump_allowed) ==
    SendOverrides(
        IF tado_sp = None
        THEN [should_send |-> TRUE, reason |-> "init_unknown_current_setpoint"]
        ELSE IF Abs(command_target_c - Val(tado_sp)) < MIN_SEND_DELTA_C
        THEN [should_send |-> FALSE, reason |-> "min_delta_guard"]
        ELSE [should_send |-> TRUE, reason |-> "normal_update"],
        tado_sp, command_target_c, window_forced, resume_jump_allowed)

\* "Decide whether to send": the base decision, then the overrides
SendDecision(tado_sp, command_target_c, now_wall, last_command_sent_ts, eff_interval_s, window_forced, resume_jump_allowed) ==
    SendOverrides(
        IF tado_sp = None
        THEN [should_send |-> TRUE, reason |-> "init_unknown_current_setpoint"]
        ELSE LET current_sp == Val(tado_sp)
                 diff == Abs(command_target_c - current_sp)
                 is_rate_limited == (now_wall - last_command_sent_ts) < eff_interval_s
             IN  IF diff < MIN_SEND_DELTA_C
                 THEN [should_send |-> FALSE, reason |-> "min_delta_guard"]
                 ELSE IF is_rate_limited
                 THEN IF command_target_c < current_sp - RATE_LIMIT_DECREASE_EPS_C
                      THEN [should_send |-> TRUE, reason |-> "urgent_decrease"]
                      ELSE [should_send |-> FALSE, reason |-> "rate_limited"]
                 ELSE [should_send |-> TRUE, reason |-> "normal_update"],
        tado_sp, command_target_c, window_forced, resume_jump_allowed)

\* TadoXProxyClimate.__init__: the entity's fields after construction.
\* Timers (unsub handles) hold the time at which they fire, or None;
\* last_regulation_reason is [sent, reason] for "sent(<reason>)" / "<reason>".
EntityInit(now_mono) ==
    [ hvac_mode |-> HEAT,
      target_temp |-> 20 * Deg,
      hybrid_state |-> HybridStateFresh(now_mono),
      last_regulation_ts |-> 0,
      last_command_sent_ts |-> 0,
      last_regulation_reason |-> [sent |-> FALSE, reason |-> "startup"],
      last_sent_target_c |-> None,
      last_sent_reason |-> None,
      last_sent_mono |-> None,
      effective_min_interval_s |-> MinCommandIntervalS,
      effective_step_up_c |-> MAX_STEP_UP_C,
      fast_recovery_active |-> FALSE,
      window_open_active |-> FALSE,
      window_forced |-> FALSE,
      window_forced_reason |-> "none",
      window_open_pending |-> FALSE,
      window_open_deadline_mono |-> None,
      window_close_deadline_mono |-> None,
      last_window_forced |-> FALSE,
      unsub_window_open_timer |-> None,
      unsub_window_close_timer |-> None,
      unsub_fast_recovery_timer |-> None,
      periodic_timer |-> None ]

\* TadoXProxyClimate._schedule_window_open_timer
ScheduleWindowOpenTimer(wc, e, now_m) ==
    IF wc.enabled /\ e.window_open_active /\ e.window_open_deadline_mono # None
    THEN [ e EXCEPT !.unsub_window_open_timer =
                        Some(now_m + Max(0, Val(e.window_open_deadline_mono) - now_m)) ]
    ELSE [ e EXCEPT !.unsub_window_open_timer = None ]

\* TadoXProxyClimate._schedule_window_close_timer
ScheduleWindowCloseTimer(wc, e, now_m) ==
    IF wc.enabled /\ ~e.window_open_active /\ e.window_close_deadline_mono # None
    THEN [ e EXCEPT !.unsub_window_close_timer =
                        Some(now_m + Max(0, Val(e.window_close_deadline_mono) - now_m)) ]
    ELSE [ e EXCEPT !.unsub_window_close_timer = None ]

\* _async_regulation_cycle, fast recovery to the send decision.
CycleCommand(e, e_w, room, tado_sp, now_t, ws, reg_mode, hybrid_state, desired_target_c) ==
    LET dt_s == IF e.last_regulation_ts > 0 THEN now_t - e.last_regulation_ts ELSE 0
        effective_setpoint == IF e.hvac_mode = OFF THEN FROST_PROTECT_C ELSE e.target_temp
        window_forced == ws.forced
        resume_from_window == e.last_window_forced /\ ~window_forced
        room_error_c == IF Val(room) = NaN THEN NaN ELSE effective_setpoint - Val(room)
        target_gap_c == IF tado_sp # None THEN desired_target_c - Val(tado_sp) ELSE 0
        fr == FastRecovery(window_forced, e.hvac_mode, reg_mode, room_error_c, target_gap_c)
        eff_interval == EffectiveMinInterval(fr.active, MinCommandIntervalS)
        eff_step == EffectiveStepUp(fr.active)
        jump == ResumeJumpAllowed(resume_from_window, tado_sp, desired_target_c)
        ct == CommandTarget(desired_target_c, tado_sp, jump, eff_step)
        sd == SendDecision(tado_sp, ct.command_target_c, now_t, e.last_command_sent_ts,
                           eff_interval, window_forced, jump)
    IN  [ skipped |-> FALSE,
          ent |-> [ e_w EXCEPT !.hybrid_state = hybrid_state,
                               !.fast_recovery_active = fr.active,
                               !.effective_min_interval_s = eff_interval,
                               !.effective_step_up_c = eff_step ],
          loc |-> [ skipped |-> FALSE,
                    now_wall |-> now_t,
                    room_temp |-> room,
                    tado_setpoint |-> tado_sp,
                    dt_s |-> dt_s,
                    effective_setpoint |-> effective_setpoint,
                    heating_enabled |-> (e.hvac_mode # OFF),
                    window_forced |-> window_forced,
                    window_reason |-> ws.reason,
                    resume_from_window |-> resume_from_window,
                    regulator_called |-> ~window_forced,
                    reg_mode |-> reg_mode,
                    desired_target_c |-> desired_target_c,
                    fast_recovery_active |-> fr.active,
                    effective_min_interval_s |-> eff_interval,
                    effective_step_up_c |-> eff_step,
                    resume_jump_allowed |-> jump,
                    command_target_c |-> ct.command_target_c,
                    step_limited |-> ct.step_limited,
                    since_last_send |-> now_t - e.last_command_sent_ts,
                    should_send |-> sd.should_send,
                    reason |-> sd.reason ] ]

\* variant: a forced cycle still commits the regulator's new state
CycleRegulate_ForcedRegulates(e, e_w, room, tado_sp, now_t, ws, res) ==
    CycleCommand(e, e_w, room, tado_sp, now_t, ws,
                 res.mode,
                 res.new_state,
                 Round1(IF ws.forced THEN FROST_PROTECT_C
                        ELSE Max(RegMinTargetC, Min(RegMaxTargetC, res.target_c))))

\* _async_regulation_cycle, the regulation block: while the window forces
\* frost protection the regulator is not called and its state is kept;
\* otherwise compute_target runs, res being its result.
CycleRegulate(e, e_w, room, tado_sp, now_t, ws, res) ==
    CycleCommand(e, e_w, room, tado_sp, now_t, ws,
                 IF ws.forced THEN e.hybrid_state.mode ELSE res.mode,
                 IF ws.forced THEN e.hybrid_state ELSE res.new_state,
                 Round1(IF ws.forced THEN FROST_PROTECT_C
                        ELSE Max(RegMinTargetC, Min(RegMaxTargetC, res.target_c))))

\* _async_regulation_cycle, the window block: ws is the result of
\* _compute_window_state; the deadline and the diagnostics are stored and
\* the open timer is re-armed when an open delay is still running.
CycleWindow(wc, e, room, tado_sp, now_t, ws) ==
    LET e_w0 == [ e EXCEPT !.last_regulation_ts = now_t,
                           !.window_open_deadline_mono = ws.open_deadline,
                           !.window_forced = ws.forced,
                           !.window_forced_reason = ws.reason,
                           !.window_open_pending = ws.pending ]
    IN  CycleRegulate(e,
                      IF ws.schedule_open THEN ScheduleWindowOpenTimer(wc, e_w0, now_t)
                      ELSE e_w0,
                      room, tado_sp, now_t, ws,
                      IF Val(room) = NaN
                      THEN ComputeTargetNaN(HybridConfigProxy,
                                    IF e.hvac_mode = OFF THEN FROST_PROTECT_C ELSE e.target_temp,
                                    IF e.last_regulation_ts > 0
                                    THEN now_t - e.last_regulation_ts ELSE 0,
                                    e.hybrid_state, e.hvac_mode # OFF, now_t)
                      ELSE ComputeTarget(HybridConfigProxy,
                                    IF e.hvac_mode = OFF THEN FROST_PROTECT_C ELSE e.target_temp,
                                    Val(room),
                                    IF e.last_regulation_ts > 0
                                    THEN now_t - e.last_regulation_ts ELSE 0,
                                    e.hybrid_state, e.hvac_mode # OFF, now_t))

\* variant: a skipped cycle also stamps the regulation time
CycleDecide_SkipStampsTime(wc, e, room, tado_sp, now_t) ==
    IF room = None THEN
        [ skipped |-> TRUE,
          ent |-> [ e EXCEPT !.last_regulation_reason =
                                 [sent |-> FALSE, reason |-> "waiting_for_sensors"],
                             !.last_regulation_ts = now_t ],
          loc |-> [ skipped |-> TRUE, now_wall |-> now_t, room_temp |-> room,
                    tado_setpoint |-> tado_sp ] ]
    ELSE CycleWindow(wc, e, room, tado_sp, now_t,
                     ComputeWindowState(wc, e.window_open_active, e.window_open_deadline_mono,
                                        e.window_close_deadline_mono, now_t))

\* _async_regulation_cycle up to the point where it either sends or not:
\* the entity with the fields assigned so far, and the cycle's locals.
CycleDecide(wc, e, room, tado_sp, now_t) ==
    IF room = None THEN
        [ skipped |-> TRUE,
          ent |-> [ e EXCEPT !.last_regulation_reason =
                                 [sent |-> FALSE, reason |-> "waiting_for_sensors"] ],
          loc |-> [ skipped |-> TRUE, now_wall |-> now_t, room_temp |-> room,
                    tado_setpoint |-> tado_sp ] ]
    ELSE CycleWindow(wc, e, room, tado_sp, now_t,
                     ComputeWindowState(wc, e.window_open_active, e.window_open_deadline_mono,
                                        e.window_close_deadline_mono, now_t))

\* variant: the send time is stamped whether or not the cycle sends
CycleFinish_StampsAlways(e, loc, now_t) ==
    LET e_s == IF loc.should_send
               THEN [ e EXCEPT !.last_command_sent_ts = loc.now_wall,
                               !.last_regulation_reason =
                                   [sent |-> TRUE, reason |-> loc.reason],
                               !.last_sent_target_c = Some(loc.command_target_c),
                               !.last_sent_reason = Some(loc.reason),
                               !.last_sent_mono = Some(now_t) ]
               ELSE [ e EXCEPT !.last_command_sent_ts = loc.now_wall,
                               !.last_regulation_reason =
                                   [sent |-> FALSE, reason |-> loc.reason] ]
        tick == /\ e.fast_recovery_active
                /\ ~loc.window_forced
                /\ loc.tado_setpoint # None
                /\ loc.desired_target_c - Val(loc.tado_setpoint) > FAST_TICK_GAP_C
        delay == Max(1, Min(FAST_RECOVERY_MIN_INTERVAL_S, e.effective_min_interval_s))
    IN  [ e_s EXCEPT !.unsub_fast_recovery_timer =
                         IF tick THEN Some(now_t + delay) ELSE None,
                     !.last_window_forced = loc.window_forced ]

\* The rest of _async_regulation_cycle, from the statement after
\* "await self._async_send_to_tado(...)" (or from "else:" when nothing is
\* sent) to the end.  e is the entity at that moment, loc the cycle's locals,
\* now_t the time at which this part runs.
CycleFinish(e, loc, now_t) ==
    LET e_s == IF loc.should_send
               THEN [ e EXCEPT !.last_command_sent_ts = loc.now_wall,
                               !.last_regulation_reason =
                                   [sent |-> TRUE, reason |-> loc.reason],
                               !.last_sent_target_c = Some(loc.command_target_c),
                               !.last_sent_reason = Some(loc.reason),
                               !.last_sent_mono = Some(now_t) ]
               ELSE [ e EXCEPT !.last_regulation_reason =
                                   [sent |-> FALSE, reason |-> loc.reason] ]
        tick == /\ e.fast_recovery_active
                /\ ~loc.window_forced
                /\ loc.tado_setpoint # None
                /\ loc.desired_target_c - Val(loc.tado_setpoint) > FAST_TICK_GAP_C
        delay == Max(1, Min(FAST_RECOVERY_MIN_INTERVAL_S, e.effective_min_interval_s))
    IN  [ e_s EXCEPT !.unsub_fast_recovery_timer =
                         IF tick THEN Some(now_t + delay) ELSE None,
                     !.last_window_forced = loc.window_forced ]

\* ====================================================================
\* State
\* ====================================================================
VARIABLES
    \* --- SpecHybrid: a HybridRegulator driven directly
    hcfg,           \* its HybridConfig
    hstate,         \* the HybridState passed to the next call
    hmono,          \* time.monotonic()
    hcalls,         \* number of calls made
    hlast,          \* inputs and result of the last call, or None
    \* --- Spec / SpecSerial: one TadoXProxyClimate entity
    setup,          \* config entry: window options, source entity; and whether
                    \* cycles are run one at a time (SpecSerial)
    now,            \* the clock (time.time() and time.monotonic() alike)
    started,        \* async_added_to_hass has run
    ent,            \* the entity's fields
    tado_setpoint,  \* the source entity's temperature attribute: Some(value) or None
    inflight,       \* locals of the cycles suspended in "await _async_send_to_tado"
    last,           \* inputs and locals of the cycle that started last, or None
    ev,             \* what the last step was
    ncycles,        \* cycles started so far
    nticks,         \* clock advances so far
    hist            \* history: when a write was last issued, the resume-jump
                    \* writes issued since the last window-forced cycle, and
                    \* whether the last closed event ended a forced-open period,
                    \* and when the regulator's stored room sample was taken

cvars == << setup, now, started, ent, tado_setpoint, inflight, last, ev, ncycles, nticks,
            hist >>

\* ====================================================================
\* Specification SpecHybrid: sequences of compute_target calls
\* ====================================================================
hvars == << hcfg, hstate, hmono, hcalls, hlast >>

\* bound on the number of compute_target calls in one behaviour
MaxCalls == 3

\* inputs of the calls
HSetpoints == { 20 * Deg, 21 * Deg + 3 * (Deg \div 100), 35 * Deg }
HRooms == { 18 * Deg, 20 * Deg - 5 * (Deg \div 100), 21 * Deg }
HDeltas == { 0, 60, 300, 1800 }

HInit ==
    /\ hcfg \in { HybridConfigDefault, HybridConfigProxy }
    /\ hmono = 0
    /\ hstate = HybridStateFresh(0)
    /\ hcalls = 0
    /\ hlast = None

\* one compute_target call, made time_delta_s after the previous one
HCompute(setpoint_c, room_temp_c, time_delta_s, heating_enabled) ==
    /\ hcalls < MaxCalls
    /\ LET t == hmono + Max(0, time_delta_s)
           res == ComputeTarget(hcfg, setpoint_c, room_temp_c, time_delta_s,
                                hstate, heating_enabled, t)
       IN  /\ hmono' = t
           /\ hstate' = res.new_state
           /\ hlast' = Some([ setpoint_c |-> setpoint_c,
                              room_temp_c |-> room_temp_c,
                              time_delta_s |-> time_delta_s,
                              heating_enabled |-> heating_enabled,
                              now |-> t,
                              prev |-> hstate,
                              res |-> res ])
    /\ hcalls' = hcalls + 1
    /\ UNCHANGED hcfg

HNext ==
    \E sp \in HSetpoints, room \in HRooms, dts \in HDeltas, he \in BOOLEAN :
        HCompute(sp, room, dts, he)

vars == << hvars, cvars >>

\* the entity is not part of SpecHybrid: its variables stay as constructed
CIdle ==
    /\ setup = [ enabled |-> FALSE, open_delay_s |-> 0, close_delay_s |-> 0,
                 has_source |-> FALSE, serial |-> FALSE, nonfinite |-> FALSE,
                 live |-> FALSE ]
    /\ now = 0
    /\ started = FALSE
    /\ ent = EntityInit(0)
    /\ tado_setpoint = None
    /\ inflight = << >>
    /\ last = None
    /\ ev = "init"
    /\ ncycles = 0
    /\ nticks = 0
    /\ hist = [ wrote_at |-> None, jumps |-> 0, close_after_forced_open |-> FALSE,
                sampled_at |-> None ]

InitHybrid == HInit /\ CIdle

SpecHybrid == InitHybrid /\ [][HNext /\ UNCHANGED cvars]_vars

\* Long-running regulation near the setpoint.  The bias integrator moves by
\* at most bias_rate_limit_c_per_h, so the states in which it or the small
\* integral sits at a clamp lie hours of ticks away from a fresh state: the
\* regulator starts here from a state a long run has left behind.
SteadySetpoint == 20 * Deg
SteadyRooms == { SteadySetpoint - 5 * Tenth, SteadySetpoint - Tenth \div 2,
                 SteadySetpoint + Tenth \div 2, SteadySetpoint + 2 * Tenth }
SteadyDeltas == { 0, 300, 1800 }

SteadyStates(cfg) ==
    { [ HybridStateFresh(0) EXCEPT !.bias_c = b, !.i_small_c = i ] :
        b \in { cfg.bias_min_c, 0, cfg.bias_max_c },
        i \in { cfg.i_small_min_c, 0, cfg.i_small_max_c } }

InitSteady ==
    /\ hcfg \in { HybridConfigDefault, HybridConfigProxy }
    /\ hmono = 0
    /\ hstate \in SteadyStates(hcfg)
    /\ hcalls = 0
    /\ hlast = None
    /\ CIdle

HSteady ==
    \E room \in SteadyRooms, dts \in SteadyDeltas :
        HCompute(SteadySetpoint, room, dts, TRUE)

SpecSteady == InitSteady /\ [][HSteady /\ UNCHANGED cvars]_vars


\* ====================================================================
\* Specifications Spec and SpecSerial: the climate entity and its triggers
\* ====================================================================

\* the clock's first reading: any time later than the command interval
StartTime == MinCommandIntervalS + DEFAULT_CONTROL_INTERVAL_S
\* bounds of one behaviour: cycles started, clock advances, cycles that may
\* be suspended in the actuator write at once
MaxCycles == 3
MaxTicks == 2
MaxInflight == 2

\* values the environment supplies: what a cycle reads as room temperature
\* and as the source entity's setpoint, what the user sets, the window options
RoomInputs == { None, Some(20 * Deg) }
TadoInputs == { 5 * Deg + Tenth, 19 * Deg + 26 * (Deg \div 100) }
UserSetpoints == { 22 * Deg }
WindowDelays == { 0, 60 }
TickSteps == { FAST_RECOVERY_MIN_INTERVAL_S, 60, DEFAULT_CONTROL_INTERVAL_S }

\* nonfinite: the room sensor of this installation may report "nan"
\* live: the behaviour is followed over a stretch of time rather than over a
\* number of cycles, with a room temperature that stays available
Setups(serial, nonfinite) ==
    [ enabled : {TRUE}, open_delay_s : WindowDelays, close_delay_s : WindowDelays,
      has_source : BOOLEAN, serial : {serial}, nonfinite : {nonfinite}, live : {FALSE} ]

SetupsLive == { [ s EXCEPT !.live = TRUE ] : s \in Setups(TRUE, FALSE) }

\* the stretch of time followed when setup.live: past the first periodic cycle
LiveHorizon == StartTime + DEFAULT_CONTROL_INTERVAL_S + 60

ConstructedFrom(setups, reported) ==
    /\ setup \in setups
    /\ now = StartTime
    /\ started = FALSE
    /\ ent = EntityInit(StartTime)
    /\ tado_setpoint \in IF setup.has_source THEN { Some(v) : v \in reported } ELSE { None }
    /\ inflight = << >>
    /\ last = None
    /\ ev = "init"
    /\ ncycles = 0
    /\ nticks = 0
    /\ hist = [ wrote_at |-> None, jumps |-> 0, close_after_forced_open |-> FALSE,
                sampled_at |-> None ]

ConstructedWith(serial, nonfinite, reported) ==
    ConstructedFrom(Setups(serial, nonfinite), reported)

Constructed(serial, nonfinite) == ConstructedWith(serial, nonfinite, TadoInputs)

CInit == Constructed(FALSE, FALSE)

CInitSerial == Constructed(TRUE, FALSE)

CInitNonFinite == Constructed(TRUE, TRUE)

\* setpoints outside the proxy's target range that the source entity's
\* "temperature" attribute may hold (any float is accepted)
TadoOffRange == { 3 * Deg, 30 * Deg }

CInitOffRange == ConstructedWith(TRUE, FALSE, TadoOffRange)

CInitLive == ConstructedFrom(SetupsLive, TadoInputs)

\* the hybrid-only variables are not part of Spec
HIdle ==
    /\ hcfg = HybridConfigProxy
    /\ hmono = 0
    /\ hstate = HybridStateFresh(0)
    /\ hcalls = 0
    /\ hlast = None

\* the regulator state holds a non-finite value
Poisoned(e) == e.hybrid_state.last_room_temp_c = Some(NaN)

\* what a cycle may read as room temperature in this installation
RoomReadings ==
    IF setup.live THEN RoomInputs \ { None }
    ELSE RoomInputs \cup (IF setup.nonfinite THEN { Some(NaN) } ELSE { })

\* A trigger may start a cycle; in SpecSerial only when none is in flight.
\* The entity is followed until its regulator state holds a non-finite value.
CanStartCycle ==
    /\ started
    /\ ~Poisoned(ent)
    /\ ncycles < MaxCycles
    /\ Len(inflight) < MaxInflight
    /\ setup.serial => inflight = << >>

\* One regulation cycle started on entity e0 (the entity after the trigger's
\* own assignments), reading room as the room temperature: it runs to its
\* end, or suspends in the actuator write.
RunCycle(e0, h0) ==
    \E room \in RoomReadings :
    \E d \in { CycleDecide(setup, e0, room, tado_setpoint, now) } :
    LET awaits == ~d.skipped /\ d.loc.should_send /\ setup.has_source
    IN  /\ ent' = IF d.skipped \/ awaits THEN d.ent
                  ELSE CycleFinish(d.ent, d.loc, now)
        /\ inflight' = IF awaits THEN Append(inflight, d.loc) ELSE inflight
        /\ last' = Some(d.loc)
        /\ ev' = IF d.skipped THEN "cycle_skipped"
                 ELSE IF awaits THEN "cycle_awaits"
                 ELSE "cycle_done"
        /\ ncycles' = IF setup.live THEN ncycles ELSE ncycles + 1
        /\ hist' = [ h0 EXCEPT
                       !.wrote_at = IF awaits THEN Some(now) ELSE h0.wrote_at,
                       !.jumps = IF d.skipped THEN h0.jumps
                                 ELSE IF d.loc.window_forced THEN 0
                                 ELSE IF awaits /\ d.loc.resume_jump_allowed
                                 THEN h0.jumps + 1
                                 ELSE h0.jumps,
                       !.sampled_at = IF ~d.skipped /\ d.loc.regulator_called
                                      THEN Some(now) ELSE h0.sampled_at ]
        /\ UNCHANGED << setup, now, tado_setpoint, nticks >>

\* async_added_to_hass: window sensor set-up, periodic timer, first cycle
AddedToHass(sensor_open) ==
    /\ ~started
    /\ started' = TRUE
    /\ LET e_a == [ ent EXCEPT !.window_open_active = setup.enabled /\ sensor_open,
                               !.periodic_timer = Some(now + DEFAULT_CONTROL_INTERVAL_S) ]
           e_b == IF e_a.window_open_active
                  THEN ScheduleWindowOpenTimer(setup,
                         [ e_a EXCEPT !.window_open_deadline_mono =
                                          Some(now + Max(0, setup.open_delay_s)) ], now)
                  ELSE e_a
       IN  RunCycle(e_b, hist)
    /\ UNCHANGED hvars

\* _async_regulation_timer_callback (async_track_time_interval)
PeriodicTimer ==
    /\ CanStartCycle
    /\ ent.periodic_timer # None /\ now >= Val(ent.periodic_timer)
    /\ RunCycle([ ent EXCEPT !.periodic_timer =
                      Some(Val(ent.periodic_timer) + DEFAULT_CONTROL_INTERVAL_S) ], hist)
    /\ UNCHANGED << started, hvars >>

\* _handle_window_change: a state event of the window sensor
WindowChange(is_open) ==
    /\ CanStartCycle
    /\ setup.enabled
    /\ setup.live => now + Max(setup.open_delay_s, setup.close_delay_s) <= LiveHorizon
    /\ LET e_c == [ ent EXCEPT !.window_open_active = is_open,
                               !.unsub_window_open_timer = None,
                               !.unsub_window_close_timer = None ]
           e_d == IF is_open
                  THEN ScheduleWindowOpenTimer(setup,
                         [ e_c EXCEPT !.window_open_deadline_mono =
                                          Some(now + Max(0, setup.open_delay_s)),
                                      !.window_close_deadline_mono = None ], now)
                  ELSE ScheduleWindowCloseTimer(setup,
                         [ e_c EXCEPT !.window_close_deadline_mono =
                                          Some(now + Max(0, setup.close_delay_s)),
                                      !.window_open_deadline_mono = None ], now)
           \* history: does this closed event end a forced-open period (or
           \* repeat inside the hold that followed one)?
           ws == ComputeWindowState(setup, ent.window_open_active,
                                    ent.window_open_deadline_mono,
                                    ent.window_close_deadline_mono, now)
           h_d == [ hist EXCEPT !.close_after_forced_open =
                       /\ ~is_open
                       /\ \/ ws.reason = "window_open_forced"
                          \/ ws.reason = "window_close_hold" /\ hist.close_after_forced_open ]
       IN  RunCycle(e_d, h_d)
    /\ UNCHANGED << started, hvars >>

\* _schedule_window_open_timer._fire
WindowOpenTimerFire ==
    /\ CanStartCycle
    /\ ent.unsub_window_open_timer # None /\ now >= Val(ent.unsub_window_open_timer)
    /\ RunCycle([ ent EXCEPT !.unsub_window_open_timer = None ], hist)
    /\ UNCHANGED << started, hvars >>

\* _schedule_window_close_timer._fire
WindowCloseTimerFire ==
    /\ CanStartCycle
    /\ ent.unsub_window_close_timer # None /\ now >= Val(ent.unsub_window_close_timer)
    /\ RunCycle([ ent EXCEPT !.unsub_window_close_timer = None ], hist)
    /\ UNCHANGED << started, hvars >>

\* _schedule_fast_recovery_tick._fire
FastRecoveryTick ==
    /\ CanStartCycle
    /\ ent.unsub_fast_recovery_timer # None /\ now >= Val(ent.unsub_fast_recovery_timer)
    /\ RunCycle([ ent EXCEPT !.unsub_fast_recovery_timer = None ], hist)
    /\ UNCHANGED << started, hvars >>

\* async_set_temperature
SetTemperature(temp) ==
    /\ CanStartCycle
    /\ RunCycle([ ent EXCEPT !.target_temp = temp ], hist)
    /\ UNCHANGED << started, hvars >>

\* async_set_hvac_mode
SetHvacMode(hvac_mode) ==
    /\ CanStartCycle
    /\ RunCycle([ ent EXCEPT !.hvac_mode = hvac_mode ], hist)
    /\ UNCHANGED << started, hvars >>

RemoveAt(seq, i) == [ j \in 1 .. (Len(seq) - 1) |-> IF j < i THEN seq[j] ELSE seq[j + 1] ]

\* The awaited service call of _async_send_to_tado returns (ok) or raises
\* (the exception is caught and logged); the suspended cycle runs to its end.
SendReturns(i, ok) ==
    /\ i \in 1 .. Len(inflight)
    /\ ent' = CycleFinish(ent, inflight[i], now)
    /\ inflight' = RemoveAt(inflight, i)
    /\ tado_setpoint' = IF ok THEN Some(inflight[i].command_target_c) ELSE tado_setpoint
    /\ ev' = IF ok THEN "write_ok" ELSE "write_failed"
    /\ UNCHANGED << setup, now, started, last, ncycles, nticks, hist, hvars >>

Deadlines ==
    { Val(t) : t \in { ent.periodic_timer, ent.unsub_window_open_timer,
                       ent.unsub_window_close_timer, ent.unsub_fast_recovery_timer }
                     \ { None } }

\* time passes; a timer that is due fires before the clock moves on
Tick(d) ==
    /\ started
    /\ IF setup.live THEN now + d <= LiveHorizon ELSE nticks < MaxTicks
    /\ setup.serial => inflight = << >>
    /\ \A t \in Deadlines : now + d <= t
    /\ now' = now + d
    /\ nticks' = IF setup.live THEN nticks ELSE nticks + 1
    /\ ev' = "tick"
    /\ UNCHANGED << setup, started, ent, tado_setpoint, inflight, last, ncycles, hist,
                    hvars >>

Next ==
    \/ \E o \in BOOLEAN : AddedToHass(o)
    \/ PeriodicTimer
    \/ \E o \in BOOLEAN : WindowChange(o)
    \/ WindowOpenTimerFire
    \/ WindowCloseTimerFire
    \/ FastRecoveryTick
    \/ \E t \in UserSetpoints : SetTemperature(t)
    \/ \E m \in HvacModes : SetHvacMode(m)
    \/ \E i \in 1 .. MaxInflight, ok \in BOOLEAN : SendReturns(i, ok)
    \/ \E d \in TickSteps : Tick(d)

Init == CInit /\ HIdle

\* the entity with concurrent triggers, as the event loop runs them
Spec == Init /\ [][Next]_vars

InitSerial == CInitSerial /\ HIdle

\* the same entity when cycles are run one at a time
SpecSerial == InitSerial /\ [][Next]_vars

InitNonFinite == CInitNonFinite /\ HIdle

\* cycles run one at a time, with a room sensor that may report "nan"
SpecNonFinite == InitNonFinite /\ [][Next]_vars

InitOffRange == CInitOffRange /\ HIdle

\* the serial entity attached to a source that reports an off-range setpoint
SpecOffRange == InitOffRange /\ [][Next]_vars

InitLive == CInitLive /\ HIdle

\* The serial entity followed over LiveHorizon, as the window sensor, the
\* timers and the passing of time drive it (no user calls, and the actuator
\* accepts every write).  Time moves to the next timer or by a minute.
LiveSteps == { 60 } \cup { t - now : t \in { u \in Deadlines : u > now } }

LiveNext ==
    \/ \E o \in BOOLEAN : AddedToHass(o)
    \/ PeriodicTimer
    \/ \E o \in BOOLEAN : WindowChange(o)
    \/ WindowOpenTimerFire
    \/ WindowCloseTimerFire
    \/ FastRecoveryTick
    \/ \E i \in 1 .. MaxInflight : SendReturns(i, TRUE)
    \/ \E d \in LiveSteps : Tick(d)

\* a timer is due and a cycle may start / the step in which it fires
TimerDue(t) == CanStartCycle /\ t # None /\ now >= Val(t)
PeriodicDue == TimerDue(ent.periodic_timer)
OpenTimerDue == TimerDue(ent.unsub_window_open_timer)
CloseTimerDue == TimerDue(ent.unsub_window_close_timer)
FastTimerDue == TimerDue(ent.unsub_fast_recovery_timer)
PeriodicFired == PeriodicDue /\ ent'.periodic_timer # ent.periodic_timer
OpenTimerFired ==
    /\ OpenTimerDue /\ ent'.unsub_window_open_timer = None
    /\ ent'.window_open_active = ent.window_open_active
CloseTimerFired ==
    /\ CloseTimerDue /\ ent'.unsub_window_close_timer = None
    /\ ent'.window_open_active = ent.window_open_active
FastTimerFired ==
    /\ FastTimerDue /\ ent'.unsub_fast_recovery_timer # ent.unsub_fast_recovery_timer

\* The event loop runs every callback that is due, an awaited service call
\* returns, and time passes.  A timer that is due again and again fires,
\* although a cycle in flight may hold it back for a while: strong fairness
\* of the four timer actions, written out with their guards (TimerDue is
\* the enabling condition of the timer's action), strong fairness of the
\* clock and weak fairness of the return of the awaited write.
LiveFairness ==
    /\ <>[]~PeriodicDue \/ []<><<PeriodicFired>>_vars
    /\ <>[]~OpenTimerDue \/ []<><<OpenTimerFired>>_vars
    /\ <>[]~CloseTimerDue \/ []<><<CloseTimerFired>>_vars
    /\ <>[]~FastTimerDue \/ []<><<FastTimerFired>>_vars
    /\ WF_vars(\E i \in 1 .. MaxInflight : SendReturns(i, TRUE))
    /\ SF_vars(\E d \in LiveSteps : Tick(d))

SpecLive == InitLive /\ [][LiveNext]_vars /\ LiveFairness

\* --------------------------------------------------------------------
\* Claims about compute_target (checked under SpecHybrid)
\* --------------------------------------------------------------------
HCalled == hlast # None
HL == Val(hlast)

\* C1: every compute_target call returns a target_c within
\* [min_target_c, max_target_c].
C1_TargetWithinAbsolute ==
    HCalled => /\ HL.res.target_c >= hcfg.min_target_c
               /\ HL.res.target_c <= hcfg.max_target_c

\* C1 witness: a BOOST call whose relative window lies above max_target_c and
\* whose returned target is exactly max_target_c.
C1_Witness ==
    /\ HCalled
    /\ HL.res.mode = BOOST
    /\ HL.setpoint_c - hcfg.max_offset_c > hcfg.max_target_c
    /\ HL.res.target_c = hcfg.max_target_c

AcceptedSetpoint(sp) == sp >= 5 * Deg /\ sp <= 35 * Deg

WithinRelative(sp, target, tol) ==
    /\ target >= sp - hcfg.max_offset_c - tol
    /\ target <= sp + hcfg.max_offset_c + tol

\* C2 as stated: for every accepted setpoint (5..35) the returned target_c is
\* within [setpoint_c - max_offset_c, setpoint_c + max_offset_c].
C2_Original ==
    (HCalled /\ AcceptedSetpoint(HL.setpoint_c))
        => WithinRelative(HL.setpoint_c, HL.res.target_c, 0)

\* C2 amended: the relative bound holds for setpoints up to
\* max_target_c + max_offset_c (33) that are multiples of 0.1, and within the
\* 0.05 of the final rounding for the others; for setpoints above 33 the
\* absolute clamp wins and the target is max_target_c.
C2_Amended ==
    (HCalled /\ AcceptedSetpoint(HL.setpoint_c)) =>
        /\ (HL.setpoint_c <= hcfg.max_target_c + hcfg.max_offset_c)
             => /\ WithinRelative(HL.setpoint_c, HL.res.target_c, Tenth \div 2)
                /\ (HL.setpoint_c % Tenth = 0
                      => WithinRelative(HL.setpoint_c, HL.res.target_c, 0))
        /\ (HL.setpoint_c > hcfg.max_target_c + hcfg.max_offset_c)
             => HL.res.target_c = hcfg.max_target_c

\* C2 witness: a COAST call at setpoint 20 whose target is held up at
\* setpoint - max_offset_c by the relative clamp.
C2_Witness ==
    /\ HCalled
    /\ HL.setpoint_c = 20 * Deg
    /\ HL.res.mode = COAST
    /\ HL.res.raw_target < HL.setpoint_c - hcfg.max_offset_c
    /\ HL.res.target_c = HL.setpoint_c - hcfg.max_offset_c

\* --------------------------------------------------------------------
\* Claims about the regulation cycle (checked under SpecSerial and Spec)
\* --------------------------------------------------------------------
\* the cycle that started last ran past the sensor check
Ran == last # None /\ ~Val(last).skipped
L == Val(last)
KnownSetpoint == L.tado_setpoint # None
CurrentSp == Val(L.tado_setpoint)

\* this step starts a cycle that runs past the sensor check (LN: its locals)
LN == Val(last')
CycleStep == ncycles' = ncycles + 1 /\ ~LN.skipped
KnownSetpointN == LN.tado_setpoint # None
CurrentSpN == Val(LN.tado_setpoint)
\* this step calls the actuator write with the cycle's command target
WriteIssued ==
    /\ Len(inflight') = Len(inflight) + 1
    /\ inflight'[Len(inflight')].command_target_c = LN.command_target_c
NoWriteIssued == ~LN.should_send /\ inflight' = inflight

\* C3: a cycle with a known actuator setpoint whose command target is lower
\* than that setpoint by at least MIN_SEND_DELTA_C issues a write, whatever
\* the time since the last write.
C3_DecreaseAlwaysSent ==
    [][ ( /\ CycleStep
          /\ KnownSetpointN
          /\ LN.command_target_c <= CurrentSpN - MIN_SEND_DELTA_C )
        => WriteIssued ]_vars

\* C3 witness: such a decrease is written by a cycle that starts at the very
\* time of the last write, without window forcing.
C3_Witness ==
    /\ Ran /\ KnownSetpoint
    /\ L.command_target_c <= CurrentSp - MIN_SEND_DELTA_C
    /\ L.since_last_send = 0
    /\ ~L.window_forced
    /\ L.should_send
    /\ ev = "cycle_awaits"

\* C4: a cycle without window forcing, with a known actuator setpoint and
\* |command target - setpoint| < MIN_SEND_DELTA_C, issues no write, whatever
\* the time since the last write.
C4_SmallDeltaNeverSent ==
    [][ ( /\ CycleStep
          /\ ~LN.window_forced
          /\ KnownSetpointN
          /\ Abs(LN.command_target_c - CurrentSpN) < MIN_SEND_DELTA_C )
        => NoWriteIssued ]_vars

\* C4 witness: such a cycle, outside the rate-limit window, sends nothing.
C4_Witness ==
    /\ Ran /\ KnownSetpoint
    /\ ~L.window_forced
    /\ Abs(L.command_target_c - CurrentSp) < MIN_SEND_DELTA_C
    /\ L.since_last_send >= L.effective_min_interval_s
    /\ ~L.should_send
    /\ ev = "cycle_done"

\* C5: with cycles run one at a time, a cycle with a known setpoint, no
\* window forcing and no resume jump, started less than the effective
\* minimum interval after the last write was issued, and whose command
\* target is not below the setpoint by more than RATE_LIMIT_DECREASE_EPS_C,
\* issues no write (so two successive non-decrease writes are at least the
\* effective minimum interval apart).
C5_RateLimitHoldsNonDecrease ==
    [][ ( /\ CycleStep
          /\ KnownSetpointN
          /\ ~LN.window_forced
          /\ ~LN.resume_jump_allowed
          /\ hist.wrote_at # None
          /\ now - Val(hist.wrote_at) < LN.effective_min_interval_s
          /\ LN.command_target_c >= CurrentSpN - RATE_LIMIT_DECREASE_EPS_C )
        => NoWriteIssued ]_vars

\* C5 witness: an upward change of at least MIN_SEND_DELTA_C is held back
\* inside the interval that started with the last write.
C5_Witness ==
    /\ Ran /\ KnownSetpoint
    /\ hist.wrote_at # None
    /\ L.now_wall - Val(hist.wrote_at) < L.effective_min_interval_s
    /\ L.command_target_c >= CurrentSp + MIN_SEND_DELTA_C
    /\ ~L.should_send
    /\ L.reason = "rate_limited"
    /\ ev = "cycle_done"

\* the step-up limit in force in the cycle
StepUpLimitOfMode ==
    L.effective_step_up_c =
        IF L.fast_recovery_active THEN FAST_RECOVERY_MAX_STEP_UP_C ELSE MAX_STEP_UP_C

\* C6 as stated: with a known setpoint and no resume jump, a command target
\* above the setpoint exceeds it by at most the effective step-up limit
\* (MAX_STEP_UP_C, or FAST_RECOVERY_MAX_STEP_UP_C in fast recovery).
C6_Original ==
    (Ran /\ KnownSetpoint /\ ~L.resume_jump_allowed /\ L.command_target_c > CurrentSp)
        => /\ StepUpLimitOfMode
           /\ L.command_target_c - CurrentSp <= L.effective_step_up_c

\* C6 amended: the stepped value is rounded to 0.1 afterwards, so the
\* command target exceeds the setpoint by at most the effective step-up limit
\* plus 0.05, and by at most the limit itself when the setpoint is a multiple
\* of 0.1.
C6_Amended ==
    (Ran /\ KnownSetpoint /\ ~L.resume_jump_allowed /\ L.command_target_c > CurrentSp)
        => /\ StepUpLimitOfMode
           /\ L.command_target_c - CurrentSp <= L.effective_step_up_c + Tenth \div 2
           /\ (CurrentSp % Tenth = 0
                 => L.command_target_c - CurrentSp <= L.effective_step_up_c)

\* C6 witness: a fast-recovery cycle whose desired target is far above the
\* setpoint and whose command target is the setpoint plus the fast limit.
C6_Witness ==
    /\ Ran /\ KnownSetpoint /\ ~L.resume_jump_allowed
    /\ L.fast_recovery_active
    /\ L.step_limited
    /\ L.desired_target_c > CurrentSp + FAST_RECOVERY_MAX_STEP_UP_C
    /\ L.command_target_c = CurrentSp + FAST_RECOVERY_MAX_STEP_UP_C

\* C7 as stated: when the actuator write fails, the command memory
\* (_last_command_sent_ts, _last_sent_target_c, _last_sent_mono) is left
\* unchanged.
C7_FailedWriteKeepsMemory ==
    [][ ev' = "write_failed"
        => /\ ent'.last_command_sent_ts = ent.last_command_sent_ts
           /\ ent'.last_sent_target_c = ent.last_sent_target_c
           /\ ent'.last_sent_mono = ent.last_sent_mono ]_vars

\* C8: a cycle that finds no room temperature sets the reason to
\* "waiting_for_sensors" and returns: no regulator call, no write;
\* HybridState, _last_regulation_ts, the command memory and
\* _last_window_forced are unchanged.
C8_SkipLeavesStateUnchanged ==
    [][ ev' = "cycle_skipped"
        => /\ ent'.last_regulation_reason =
                  [sent |-> FALSE, reason |-> "waiting_for_sensors"]
           /\ ent'.hybrid_state = ent.hybrid_state
           /\ ent'.last_regulation_ts = ent.last_regulation_ts
           /\ ent'.last_command_sent_ts = ent.last_command_sent_ts
           /\ ent'.last_sent_target_c = ent.last_sent_target_c
           /\ ent'.last_sent_reason = ent.last_sent_reason
           /\ ent'.last_sent_mono = ent.last_sent_mono
           /\ ent'.last_window_forced = ent.last_window_forced
           /\ inflight' = inflight
           /\ hist'.wrote_at = hist.wrote_at
           /\ hist'.jumps = hist.jumps ]_vars

\* C8 witness: a cycle is skipped after earlier cycles have regulated and
\* written.
C8_Witness ==
    /\ ev = "cycle_skipped"
    /\ ent.last_regulation_reason = [sent |-> FALSE, reason |-> "waiting_for_sensors"]
    /\ ent.last_regulation_ts > 0
    /\ ent.last_sent_target_c # None
    /\ ent.hybrid_state.last_room_temp_c # None

\* C9 as stated: no cycle begins while another cycle is suspended in the
\* actuator write, between its reads and its state updates.
C9_OneCycleAtATime ==
    [][ ncycles' # ncycles => inflight = << >> ]_vars

JustRan == Ran /\ ev \in { "cycle_awaits", "cycle_done" }

C13_CloseHoldOnlyAfterForcedOpen ==
    (JustRan /\ L.window_forced)
        => \/ L.window_reason = "window_open_forced" /\ ent.window_open_active
           \/ L.window_reason = "window_close_hold" /\ hist.close_after_forced_open

\* --------------------------------------------------------------------
\* Claims about the regulator's modes and integrators
\* --------------------------------------------------------------------
\* the window latch decided this call's mode
LatchActed == HL.res.mode_reason \in { "window_open_active", "window_open_detected" }
BoostTimedOut == HL.now - HL.prev.mode_entered_monotonic_s >= hcfg.boost_max_minutes * 60
BoostRecovered ==
    /\ HL.res.error_c <= hcfg.boost_error_off_c
    /\ HL.res.new_state.dTdt_ema_c_per_s * 60 > hcfg.trend_drop_threshold_c_per_min

\* C14: a call made in BOOST with heating enabled and no window latch leaves
\* BOOST exactly when the time in BOOST has reached boost_max_minutes, or the
\* error is at most boost_error_off_c and the smoothed trend is above the
\* drop threshold; otherwise it stays in BOOST.
C14_BoostExit ==
    (HCalled /\ HL.prev.mode = BOOST /\ HL.heating_enabled /\ ~LatchActed)
        => /\ HL.res.mode \in { BOOST, HOLD }
           /\ HL.res.mode # BOOST <=> (BoostTimedOut \/ BoostRecovered)

\* C14 witness: a call in BOOST whose error is at most boost_error_off_c but
\* whose trend is still at or below the drop threshold, so BOOST is kept.
C14_Witness ==
    /\ HCalled /\ HL.prev.mode = BOOST /\ HL.heating_enabled /\ ~LatchActed
    /\ HL.res.error_c <= hcfg.boost_error_off_c
    /\ ~BoostTimedOut
    /\ HL.res.mode = BOOST

\* C15: bias_c stays within [bias_min_c, bias_max_c] and i_small_c within
\* [i_small_min_c, i_small_max_c] after every call.
C15_IntegratorsWithinClamps ==
    /\ hstate.bias_c >= hcfg.bias_min_c
    /\ hstate.bias_c <= hcfg.bias_max_c
    /\ hstate.i_small_c >= hcfg.i_small_min_c
    /\ hstate.i_small_c <= hcfg.i_small_max_c

\* C15 witness: a HOLD call with a positive error in the deadband and dt > 0
\* made with the bias at bias_max_c: the bias is held at the clamp.
C15_Witness ==
    /\ HCalled /\ HL.res.mode = HOLD /\ HL.time_delta_s > 0
    /\ HL.res.error_c > 0 /\ HL.res.error_c <= hcfg.bias_deadband_c
    /\ HL.prev.bias_c = hcfg.bias_max_c
    /\ hstate.bias_c = hcfg.bias_max_c

\* C16: one call changes bias_c by at most bias_rate_limit_c_per_h / 3600 * dt,
\* and not at all when dt = 0.
C16_BiasRateLimited ==
    HCalled =>
        Abs(hstate.bias_c - HL.prev.bias_c) * 3600
            <= hcfg.bias_rate_limit_c_per_h * Max(0, HL.time_delta_s)

\* C16 witness: a call with dt > 0 that moved the bias.
C16_Witness ==
    /\ HCalled /\ HL.time_delta_s > 0
    /\ hstate.bias_c # HL.prev.bias_c
\* this call sees a previous sample, dt > 0 and a smoothed trend at or below
\* the window-open drop threshold
FastDropSeen ==
    /\ HL.prev.last_room_temp_c # None
    /\ HL.time_delta_s > 0
    /\ HL.res.new_state.dTdt_ema_c_per_s * 60 <= hcfg.window_open_drop_threshold_c_per_min

\* C17: with trend-based window detection enabled, a call with heating
\* enabled that sees a fast drop yields COAST whatever the previous mode and
\* the error, and so does every call made before the latch deadline, which is
\* the arming time plus window_open_hold_minutes and is not moved until then.
C17_WindowLatchCoasts ==
    (HCalled /\ hcfg.window_open_enabled) =>
        /\ (HL.heating_enabled /\ FastDropSeen) => HL.res.mode = COAST
        /\ HL.now < HL.prev.window_open_until_monotonic_s
              => /\ HL.res.mode = COAST
                 /\ hstate.window_open_until_monotonic_s
                      = HL.prev.window_open_until_monotonic_s
        /\ HL.res.window_open_triggered
              => hstate.window_open_until_monotonic_s
                   = HL.now + hcfg.window_open_hold_minutes * 60

\* C17 witness: a call made while the latch is active, with heating enabled
\* and an error that would otherwise start BOOST, returns COAST.
C17_Witness ==
    /\ HCalled /\ hcfg.window_open_enabled /\ HL.heating_enabled
    /\ HL.now < HL.prev.window_open_until_monotonic_s
    /\ HL.res.error_c >= hcfg.boost_error_on_c
    /\ HL.res.mode = COAST

\* the arming call itself, made in BOOST with a positive error
C17_ArmedFromBoost ==
    /\ HCalled /\ HL.heating_enabled /\ HL.res.window_open_triggered
    /\ HL.prev.mode = BOOST /\ HL.res.error_c > 0
    /\ HL.res.mode = COAST
CallNow(sp, room) == ComputeTarget(hcfg, sp, room, 0, hstate, TRUE, hmono)
\* that call stays in BOOST and its raw target is the floor, not the
\* proportional term
FloorDecides(sp, room) ==
    LET r == CallNow(sp, room)
    IN  /\ r.mode = BOOST
        /\ r.raw_target > sp + r.new_state.bias_c + r.p_term_c

\* C19: in BOOST the target before clamping is the larger of setpoint + boost
\* floor offset and setpoint + bias + kp * error, the floor being relative to
\* the setpoint: wherever the floor decides the raw target, it lies the same
\* offset above the setpoint, whatever the setpoint.
C19_BoostFloorRelative ==
    (HCalled /\ hstate.mode = BOOST) =>
        \A sp1 \in HSetpoints, sp2 \in HSetpoints, r1 \in HRooms, r2 \in HRooms :
            (FloorDecides(sp1, r1) /\ FloorDecides(sp2, r2))
                => CallNow(sp1, r1).raw_target - sp1 = CallNow(sp2, r2).raw_target - sp2

FirstCallCold ==
    /\ HCalled /\ HL.prev = HybridStateFresh(0)
    /\ HL.time_delta_s = 0 /\ HL.heating_enabled
    /\ HL.res.error_c >= hcfg.boost_error_on_c

NothingSentYet == ent.last_sent_target_c = None /\ ent.last_command_sent_ts = 0

\* C21: a cycle started while no command has been sent yet sends the desired
\* target verbatim: it issues a write, and the command target is the desired
\* target (no min-delta guard, no rate limit, no step-up limit).
C21_FirstSendVerbatim ==
    [][ (CycleStep /\ NothingSentYet)
        => /\ WriteIssued
           /\ LN.command_target_c = LN.desired_target_c ]_vars

\* C22: a cycle that reads a non-finite room temperature is treated like one
\* with a missing input: the regulator is not called, nothing is written and
\* HybridState is unchanged.
C22_NonFiniteRoomSkipped ==
    [][ (ncycles' = ncycles + 1 /\ LN.room_temp = Some(NaN))
        => /\ LN.skipped
           /\ ent'.hybrid_state = ent.hybrid_state
           /\ inflight' = inflight ]_vars

\* the monotonic times at which a further call may be made in this state
CallTimes == { hmono + d : d \in HDeltas }

\* C23: compute_target is deterministic: in any state, two calls with the
\* same setpoint, room temperature, time delta, heating flag and HybridState
\* return the same mode, target and new state, whenever they are made.
C23_Deterministic ==
    HCalled =>
        \A sp \in HSetpoints, room \in HRooms, dts \in HDeltas, he \in BOOLEAN :
        \A t1 \in CallTimes, t2 \in CallTimes :
            LET r1 == ComputeTarget(hcfg, sp, room, dts, hstate, he, t1)
                r2 == ComputeTarget(hcfg, sp, room, dts, hstate, he, t2)
            IN  /\ r1.mode = r2.mode
                /\ r1.target_c = r2.target_c
                /\ r1.new_state = r2.new_state

\* the same for the mode and the target alone
C23_SameModeAndTarget ==
    HCalled =>
        \A sp \in HSetpoints, room \in HRooms, dts \in HDeltas, he \in BOOLEAN :
        \A t1 \in CallTimes, t2 \in CallTimes :
            LET r1 == ComputeTarget(hcfg, sp, room, dts, hstate, he, t1)
                r2 == ComputeTarget(hcfg, sp, room, dts, hstate, he, t2)
            IN  r1.mode = r2.mode /\ r1.target_c = r2.target_c

\* C24: a call whose resulting mode differs from the previous state's mode
\* stamps the new state's mode-entered time with the current monotonic time;
\* a call that keeps the mode keeps the timestamp.
C24_ModeChangeStampsTime ==
    HCalled =>
        /\ HL.res.mode # HL.prev.mode
              => hstate.mode_entered_monotonic_s = HL.now
        /\ HL.res.mode = HL.prev.mode
              => hstate.mode_entered_monotonic_s = HL.prev.mode_entered_monotonic_s

\* the same, for calls with heating enabled only
C24_WithHeatingEnabled ==
    (HCalled /\ HL.heating_enabled) => C24_ModeChangeStampsTime

\* C25: a call with heating disabled returns COAST without running the mode
\* machine, the bias learning or the window latch: bias_c, i_small_c and the
\* latch deadline of the new state are those of the input state.
C25_HeatingDisabledFreezes ==
    (HCalled /\ ~HL.heating_enabled) =>
        /\ HL.res.mode = COAST
        /\ HL.res.mode_reason = "heating_disabled"
        /\ ~HL.res.window_open_triggered
        /\ hstate.bias_c = HL.prev.bias_c
        /\ hstate.i_small_c = HL.prev.i_small_c
        /\ hstate.window_open_until_monotonic_s = HL.prev.window_open_until_monotonic_s

\* C25 witness: a heating-disabled call made while an armed window latch is
\* still running keeps its deadline.
C25_Witness ==
    /\ HCalled /\ ~HL.heating_enabled
    /\ HL.now < HL.prev.window_open_until_monotonic_s
    /\ HL.res.mode = COAST
    /\ hstate.window_open_until_monotonic_s = HL.prev.window_open_until_monotonic_s

\* --------------------------------------------------------------------
\* Claims about fast recovery
\* --------------------------------------------------------------------
\* the three conditions of fast recovery, from the cycle's locals
FastByBoost == L.reg_mode = BOOST
FastByRoomError == L.effective_setpoint - Val(L.room_temp) >= FAST_RECOVERY_ERROR_C
FastByTargetGap ==
    KnownSetpoint /\ L.desired_target_c - CurrentSp >= FAST_RECOVERY_TARGET_GAP_C

TentativeI ==
    Max(hcfg.i_small_min_c,
        Min(hcfg.i_small_max_c,
            HL.prev.i_small_c + RDiv(HL.res.error_c * HL.time_delta_s, hcfg.ki_small_inv)))
HoldRaw == HL.setpoint_c + hstate.bias_c + HL.res.p_term_c + TentativeI
Saturated ==
    \/ HoldRaw > Min(hcfg.max_target_c, HL.setpoint_c + hcfg.max_offset_c)
    \/ HoldRaw < Max(hcfg.min_target_c, HL.setpoint_c - hcfg.max_offset_c)
HoldWithIntegral ==
    /\ HCalled /\ HL.heating_enabled /\ HL.res.mode = HOLD
    /\ HL.time_delta_s > 0 /\ hcfg.ki_small_inv > 0

\* C27: in HOLD with dt > 0 and ki_small > 0 the tentative integral is
\* accepted exactly when the target is not cut by the relative or absolute
\* clamp and the previous integral is kept only when it is; outside HOLD the
\* integral is unchanged.
C27_AntiWindupOnSaturationOnly ==
    /\ HoldWithIntegral =>
          hstate.i_small_c = (IF Saturated THEN HL.prev.i_small_c ELSE TentativeI)
    /\ (HCalled /\ HL.res.mode # HOLD) => hstate.i_small_c = HL.prev.i_small_c

\* what the code does: the update is also rejected when the unclamped target
\* is not a multiple of 0.1
C27_RejectedOffGrid ==
    /\ HoldWithIntegral =>
          hstate.i_small_c =
              (IF Saturated \/ Round1(HoldRaw) # HoldRaw
               THEN HL.prev.i_small_c ELSE TentativeI)
    /\ (HCalled /\ HL.res.mode # HOLD) => hstate.i_small_c = HL.prev.i_small_c

\* the gates of the bias learning in the last call
BiasGatesOpen ==
    /\ HL.heating_enabled
    /\ HL.res.mode = HOLD
    /\ HL.time_delta_s > 0
    /\ Abs(HL.res.error_c) <= hcfg.bias_deadband_c
    /\ Abs(hstate.dTdt_ema_c_per_s * 60) <= hcfg.bias_trend_max_c_per_min

\* C28: bias_c changes in a call only if the mode decided in that call is
\* HOLD, dt > 0, |error| <= bias_deadband_c and |trend per minute| <=
\* bias_trend_max_c_per_min; in every other call the new bias is the old one.
C28_BiasFrozenOutsideGates ==
    (HCalled /\ ~BiasGatesOpen) => hstate.bias_c = HL.prev.bias_c

\* C28 witness: a HOLD call with dt > 0 and an error inside the deadband whose
\* trend is too large, so the bias is kept.
C28_Witness ==
    /\ HCalled /\ HL.heating_enabled /\ HL.res.mode = HOLD /\ HL.time_delta_s > 0
    /\ HL.res.error_c # 0
    /\ Abs(HL.res.error_c) <= hcfg.bias_deadband_c
    /\ Abs(hstate.dTdt_ema_c_per_s * 60) > hcfg.bias_trend_max_c_per_min
    /\ hstate.bias_c = HL.prev.bias_c

\* --------------------------------------------------------------------
\* Claims about the transitions of the mode machine
\* --------------------------------------------------------------------
\* the last call went through _decide_mode
ModeMachineRan == HCalled /\ HL.heating_enabled /\ ~LatchActed
CoastEntry ==
    \/ HL.res.error_c <= hcfg.coast_error_on_c
    \/ /\ HL.res.predicted_temp_c # None
       /\ Val(HL.res.predicted_temp_c) >= HL.setpoint_c + hcfg.overshoot_guard_c
BoostEntry ==
    \/ HL.res.error_c >= hcfg.boost_error_on_c
    \/ hstate.dTdt_ema_c_per_s * 60 <= hcfg.trend_drop_threshold_c_per_min

\* C29: the mode machine never moves directly between BOOST and COAST; from
\* HOLD the COAST entry condition wins over the BOOST entry condition.
C29_NoDirectBoostCoast ==
    ModeMachineRan =>
        /\ HL.prev.mode = BOOST => HL.res.mode \in { BOOST, HOLD }
        /\ HL.prev.mode = COAST => HL.res.mode \in { COAST, HOLD }
        /\ (HL.prev.mode = HOLD /\ CoastEntry) => HL.res.mode = COAST
        /\ (HL.prev.mode = HOLD /\ ~CoastEntry /\ BoostEntry) => HL.res.mode = BOOST

\* C29 witness: in HOLD both entry conditions hold and the call returns COAST.
C29_Witness ==
    /\ ModeMachineRan /\ HL.prev.mode = HOLD
    /\ CoastEntry /\ BoostEntry
    /\ HL.res.mode = COAST

\* C30: a call of the mode machine made in BOOST when the time since BOOST
\* was entered has reached boost_max_minutes returns HOLD, whatever the
\* error and the trend.
C30_BoostTimeout ==
    (ModeMachineRan /\ HL.prev.mode = BOOST /\ BoostTimedOut) => HL.res.mode = HOLD

\* C30 witness: the timeout ends a BOOST whose error is still at least
\* boost_error_on_c.
C30_Witness ==
    /\ ModeMachineRan /\ HL.prev.mode = BOOST /\ BoostTimedOut
    /\ HL.res.error_c >= hcfg.boost_error_on_c
    /\ HL.res.mode = HOLD
    /\ HL.res.mode_reason = "boost_timeout"

C33_DeltaSinceStoredSample ==
    [][ (CycleStep /\ LN.regulator_called
         /\ ent.hybrid_state.last_room_temp_c # None)
        => LN.dt_s = LN.now_wall - Val(hist.sampled_at) ]_vars

\* ====================================================================
\* Specification SpecModeTicks: the mode machine on consecutive ticks with
\* the error, the trend and the predicted temperature held fixed
\* ====================================================================
MaxModeTicks == 3
HeldErrors == { -4 * Tenth, -2 * Tenth, 0, 4 * Tenth, 8 * Tenth }
HeldTrends == { -600, 0, 300 }
ModeTickSteps == { 60, 1800 }

\* compute_target's prediction for a held room temperature and trend
HeldPredicted(cfg, room_temp_c, dTdt_ema) ==
    IF cfg.predict_horizon_s > 0
    THEN Some(room_temp_c + RDiv(dTdt_ema * cfg.predict_horizon_s, TrendPerDeg))
    ELSE None

InitModeTicks ==
    /\ hcfg = HybridConfigDefault
    /\ hmono = 0
    /\ hstate \in { [ HybridStateFresh(0) EXCEPT !.mode = m ] : m \in { HOLD, BOOST, COAST } }
    /\ hcalls = 0
    /\ \E e \in HeldErrors, tr \in HeldTrends :
           hlast = Some([ setpoint_c |-> SteadySetpoint, error_c |-> e, dTdt_ema_c_per_s |-> tr,
                          predicted_temp_c |-> HeldPredicted(hcfg, SteadySetpoint - e, tr),
                          modes |-> << hstate.mode >> ])
    /\ CIdle

\* one tick: _decide_mode on the held inputs, and compute_target's
\* bookkeeping of the mode and the time it was entered
ModeTick(step) ==
    /\ hcalls < MaxModeTicks
    /\ LET t == hmono + step
           h == Val(hlast)
           r == DecideMode(hcfg, h.setpoint_c, h.error_c, h.dTdt_ema_c_per_s,
                           h.predicted_temp_c, hstate, t)
       IN  /\ hmono' = t
           /\ hstate' = [ hstate EXCEPT
                            !.mode = r.mode,
                            !.mode_entered_monotonic_s =
                                IF r.mode # hstate.mode THEN t
                                ELSE hstate.mode_entered_monotonic_s ]
           /\ hlast' = Some([ h EXCEPT !.modes = Append(h.modes, r.mode) ])
    /\ hcalls' = hcalls + 1
    /\ UNCHANGED hcfg

ModeTicksNext == \E step \in ModeTickSteps : ModeTick(step)

SpecModeTicks == InitModeTicks /\ [][ModeTicksNext /\ UNCHANGED cvars]_vars

\* C34: with error, trend and predicted temperature held fixed the mode
\* reaches a fixed point after at most two ticks and never alternates
\* between two modes on successive ticks.
C34_ModeSettles ==
    LET ms == Val(hlast).modes
    IN  /\ \A i \in 1..(Len(ms) - 2) : ~(ms[i + 2] = ms[i] /\ ms[i + 1] # ms[i])
        /\ Len(ms) >= 4 => ms[4] = ms[3]

\* --------------------------------------------------------------------
\* Claims about the send bookkeeping under interleaved cycles
\* --------------------------------------------------------------------
\* C35: under every interleaving of cycle triggers, a cycle that is neither
\* an urgent decrease nor a resume jump issues no write less than the
\* effective minimum interval after the last write was issued, and
\* _last_command_sent_ts never moves backwards.
C35_RateLimitUnderInterleaving ==
    [][ /\ ( /\ CycleStep
             /\ KnownSetpointN
             /\ ~LN.window_forced
             /\ ~LN.resume_jump_allowed
             /\ hist.wrote_at # None
             /\ now - Val(hist.wrote_at) < LN.effective_min_interval_s
             /\ LN.command_target_c >= CurrentSpN - RATE_LIMIT_DECREASE_EPS_C )
           => NoWriteIssued
        /\ ent'.last_command_sent_ts >= ent.last_command_sent_ts ]_vars

\* the four fields of the send memory
SentMemory(e) ==
    << e.last_command_sent_ts, e.last_sent_target_c, e.last_sent_reason, e.last_sent_mono >>

\* the send memory a cycle with locals loc leaves when its send completes
SentMemoryOf(loc, now_t) ==
    << loc.now_wall, Some(loc.command_target_c), Some(loc.reason), Some(now_t) >>

\* C36: a cycle that decides not to send (or is skipped) leaves
\* _last_command_sent_ts, _last_sent_target_c, _last_sent_reason and
\* _last_sent_mono unchanged and issues no actuator call; the four fields
\* change only when a sending cycle completes, and then all four are set
\* from that cycle.
C36_SendMemoryOnlyOnSend ==
    [][ /\ (ncycles' = ncycles + 1 /\ (LN.skipped \/ ~LN.should_send))
           => (inflight' = inflight /\ SentMemory(ent') = SentMemory(ent))
        /\ SentMemory(ent') # SentMemory(ent)
           => \/ /\ ev' \in { "write_ok", "write_failed" }
                 /\ SentMemory(ent') = SentMemoryOf(inflight[1], now)
              \/ /\ ev' = "cycle_done" /\ LN.should_send
                 /\ SentMemory(ent') = SentMemoryOf(LN, now) ]_vars

\* C36 witness: after an earlier cycle sent, a cycle decided not to send and
\* the send memory still holds the earlier send.
C36_Witness ==
    /\ JustRan /\ ~L.should_send
    /\ ent.last_sent_target_c # None
    /\ ent.last_command_sent_ts < L.now_wall

\* --------------------------------------------------------------------
\* Claim about the end of window forcing (checked under SpecLive)
\* --------------------------------------------------------------------
\* the window sensor reports closed and the close hold forces frost protection
HoldForced ==
    /\ started /\ ~ent.window_open_active
    /\ ComputeWindowState(setup, ent.window_open_active, ent.window_open_deadline_mono,
                          ent.window_close_deadline_mono, now).forced

\* the window was opened again, or a cycle just ran with forcing inactive and
\* called the regulator
ForcingEnded ==
    \/ ent.window_open_active
    \/ JustRan /\ ~L.window_forced /\ L.regulator_called

\* C37: if the window sensor reports closed and stays closed while the room
\* temperature stays available, forcing eventually ends: a regulation cycle
\* runs with forcing inactive and the hybrid regulator is called again.
C37_ForcingEndsAfterClose == HoldForced ~> ForcingEnded

\* C37 witness: the cycle that resumes regulation after a close hold that
\* followed a forced-open period.
C37_Witness ==
    /\ setup.live /\ setup.close_delay_s > 0
    /\ JustRan /\ ~L.window_forced /\ L.regulator_called /\ L.resume_from_window
    /\ ~ent.window_open_active
    /\ hist.close_after_forced_open
    /\ ent.window_close_deadline_mono # None
    /\ now >= Val(ent.window_close_deadline_mono)

\* ====================================================================
\* regulation.py: PidRegulator
\* ====================================================================
\* float('inf'), next to NaN
Inf == 1000 * Deg

\* _is_finite
IsFinite(x) == x # NaN /\ x # Inf

\* _clamp: max(vmin, min(vmax, value)); Python's min(vmax, nan) is vmax
PidClamp(value, vmin, vmax) ==
    IF value = NaN THEN Max(vmin, vmax) ELSE Max(vmin, Min(vmax, value))

\* RegulationConfig(), with PidTuning(): gains kp 1.2, ki 0.01, kd 8,
\* derivative_ema_alpha 0.35, overshoot_brake_strength 0.75 (per cent)
RegulationConfigDefault ==
    [ kp_x10 |-> 12, ki_inv |-> 100, kd |-> 8,
      deadband_c |-> Tenth,
      max_delta_c |-> 5 * Deg,
      min_target_c |-> 5 * Deg,
      max_target_c |-> 25 * Deg,
      min_command_interval_s |-> 300,
      min_on_s |-> 300,
      min_off_s |-> 300,
      heat_on_threshold_delta_c |-> 2 * Tenth,
      heat_off_threshold_delta_c |-> Tenth \div 2,
      integral_term_min_c |-> -2 * Deg,
      integral_term_max_c |-> 2 * Deg,
      derivative_ema_alpha_pct |-> 35,
      overshoot_lookahead_s |-> 240,
      overshoot_margin_c |-> Tenth \div 2,
      overshoot_brake_strength_pct |-> 75 ]

\* PidState()
PidStateFresh ==
    [ integral_term_c |-> 0,
      last_temp_c |-> None,
      last_ts_s |-> None,
      dtemp_dt_c_per_s_ema |-> 0,
      has_dtemp_ema |-> FALSE,
      last_output_delta_c |-> 0,
      last_target_c |-> None,
      last_sent_ts_s |-> None,
      heating_on |-> FALSE,
      heating_state_change_ts_s |-> None ]

\* PidRegulator._update_time_and_temp
UpdateTimeAndTemp(st, measured_temp_c, now_ts_s) ==
    [ st EXCEPT !.last_temp_c = Some(measured_temp_c), !.last_ts_s = Some(now_ts_s) ]

\* PidRegulator._set_heating_state
SetHeatingState(st, heating_on, now_ts_s) ==
    IF st.heating_on # heating_on
    THEN [ st EXCEPT !.heating_on = heating_on,
                     !.heating_state_change_ts_s = Some(now_ts_s) ]
    ELSE st

\* PidRegulator._apply_min_on_off: the output after the latch, the latch's
\* reason (or None) and the state it leaves
ApplyMinOnOff(cfg, st, output_delta_c, now_ts_s) ==
    LET st1 == IF st.heating_state_change_ts_s = None
               THEN [ st EXCEPT !.heating_state_change_ts_s = Some(now_ts_s) ]
               ELSE st
        desired_on == IF st1.heating_on
                      THEN ~(output_delta_c <= cfg.heat_off_threshold_delta_c)
                      ELSE output_delta_c >= cfg.heat_on_threshold_delta_c
        \* "(st.heating_state_change_ts_s or now_ts_s)": a stamp of 0.0 is falsy
        since == IF Val(st1.heating_state_change_ts_s) = 0 THEN now_ts_s
                 ELSE Val(st1.heating_state_change_ts_s)
        elapsed == now_ts_s - since
    IN  IF st1.heating_on /\ ~desired_on /\ elapsed < cfg.min_on_s
        THEN [ output |-> Max(output_delta_c, cfg.heat_off_threshold_delta_c),
               reason |-> Some("min_on_hold"), state |-> st1 ]
        ELSE IF ~st1.heating_on /\ desired_on /\ elapsed < cfg.min_off_s
        THEN [ output |-> Min(output_delta_c, 0),
               reason |-> Some("min_off_hold"), state |-> st1 ]
        ELSE [ output |-> output_delta_c, reason |-> None,
               state |-> IF desired_on # st1.heating_on
                         THEN SetHeatingState(st1, desired_on, now_ts_s) ELSE st1 ]

\* variant: the command rate limit is never applied
PidRateLimited_Never(cfg, st, now_ts_s) == FALSE

\* PidRegulator.step, "Rate limit sending new commands": is this step held
\* at the last target?
PidRateLimited(cfg, st, now_ts_s) ==
    /\ st.last_sent_ts_s # None /\ st.last_target_c # None
    /\ now_ts_s - Val(st.last_sent_ts_s) < cfg.min_command_interval_s

\* variant: the fallback forgets when the last command was sent
PidInvalidInput_ForgetsSent(cfg, st, user_setpoint_c) ==
    [ decision |->
        [ target_c |-> IF st.last_target_c # None THEN Val(st.last_target_c)
                       ELSE PidClamp(user_setpoint_c, cfg.min_target_c, cfg.max_target_c),
          output_delta_c |-> 0, error_c |-> 0,
          reason |-> "invalid_input_fallback", rate_limited |-> TRUE,
          deadband_active |-> FALSE, heating_on |-> st.heating_on ],
      state |-> [ st EXCEPT !.last_sent_ts_s = None ] ]

\* PidRegulator.step, "Basic validation": the decision for a non-finite
\* setpoint or measurement, and the state (untouched)
PidInvalidInput(cfg, st, user_setpoint_c) ==
    [ decision |->
        [ target_c |-> IF st.last_target_c # None THEN Val(st.last_target_c)
                       ELSE PidClamp(user_setpoint_c, cfg.min_target_c, cfg.max_target_c),
          output_delta_c |-> 0, error_c |-> 0,
          reason |-> "invalid_input_fallback", rate_limited |-> TRUE,
          deadband_active |-> FALSE, heating_on |-> st.heating_on ],
      state |-> st ]

\* PidRegulator.step: the decision and the state it leaves
PidStep(cfg, st, user_setpoint_c, measured_temp_c, now_ts_s, window_open, force_off) ==
    IF ~IsFinite(user_setpoint_c) \/ ~IsFinite(measured_temp_c)
    THEN PidInvalidInput(cfg, st, user_setpoint_c)
    ELSE
    LET error_c == user_setpoint_c - measured_temp_c
        first == st.last_ts_s = None \/ st.last_temp_c = None
        dt_s == IF first THEN cfg.min_command_interval_s
                ELSE Max(1, now_ts_s - Val(st.last_ts_s))
        dtemp_dt == IF first THEN 0
                    ELSE RDiv((measured_temp_c - Val(st.last_temp_c)) * TrendPerDeg, dt_s)
        alpha == Max(0, Min(100, cfg.derivative_ema_alpha_pct))
        ema == IF alpha <= 0 \/ ~st.has_dtemp_ema THEN dtemp_dt
               ELSE RDiv(alpha * dtemp_dt + (100 - alpha) * st.dtemp_dt_c_per_s_ema, 100)
        st_e == [ st EXCEPT !.dtemp_dt_c_per_s_ema = ema, !.has_dtemp_ema = TRUE ]
    IN
    IF force_off THEN
        LET target == cfg.min_target_c
            st_f == SetHeatingState(
                        UpdateTimeAndTemp([ st_e EXCEPT !.last_target_c = Some(target),
                                                        !.last_output_delta_c = 0 ],
                                          measured_temp_c, now_ts_s),
                        FALSE, now_ts_s)
        IN  [ decision |-> [ target_c |-> target, output_delta_c |-> 0, error_c |-> error_c,
                             reason |-> "force_off", rate_limited |-> FALSE,
                             deadband_active |-> FALSE, heating_on |-> st_f.heating_on ],
              state |-> st_f ]
    ELSE IF window_open THEN
        LET target == PidClamp(user_setpoint_c, cfg.min_target_c, cfg.max_target_c)
            st_w == SetHeatingState(
                        UpdateTimeAndTemp(
                            [ st_e EXCEPT !.integral_term_c = RDiv(90 * st_e.integral_term_c, 100),
                                          !.last_target_c = Some(target),
                                          !.last_output_delta_c = 0 ],
                            measured_temp_c, now_ts_s),
                        FALSE, now_ts_s)
        IN  [ decision |-> [ target_c |-> target, output_delta_c |-> 0, error_c |-> error_c,
                             reason |-> "window_open_hold", rate_limited |-> FALSE,
                             deadband_active |-> TRUE, heating_on |-> st_w.heating_on ],
              state |-> st_w ]
    ELSE
        LET deadband_active == Abs(error_c) <= cfg.deadband_c
            integral == IF deadband_active THEN RDiv(92 * st_e.integral_term_c, 100)
                        ELSE PidClamp(st_e.integral_term_c + RDiv(error_c * dt_s, cfg.ki_inv),
                                      cfg.integral_term_min_c, cfg.integral_term_max_c)
            p_c == RDiv(cfg.kp_x10 * error_c, 10)
            d_c == RDiv((0 - cfg.kd) * ema, TrendPerDeg)
            pid == PidClamp(p_c + integral + d_c, 0 - cfg.max_delta_c, cfg.max_delta_c)
            brakes == /\ pid > 0 /\ ema > 0
                      /\ measured_temp_c + RDiv(ema * cfg.overshoot_lookahead_s, TrendPerDeg)
                           >= user_setpoint_c + cfg.overshoot_margin_c
            brake == Max(0, Min(100, cfg.overshoot_brake_strength_pct))
            output0 == IF deadband_active THEN 0
                       ELSE IF brakes THEN RDiv(pid * (100 - brake), 100)
                       ELSE pid
            reason0 == IF deadband_active THEN "deadband"
                       ELSE IF brakes THEN "pid_overshoot_brake" ELSE "pid"
            latch == ApplyMinOnOff(cfg, [ st_e EXCEPT !.integral_term_c = integral ],
                                   output0, now_ts_s)
            st_l == latch.state
            target0 == PidClamp(user_setpoint_c + latch.output, cfg.min_target_c, cfg.max_target_c)
            rate_limited == PidRateLimited(cfg, st_l, now_ts_s)
            target == IF rate_limited THEN Val(st_l.last_target_c) ELSE target0
            output == IF rate_limited THEN target - user_setpoint_c ELSE latch.output
            st_p == UpdateTimeAndTemp([ st_l EXCEPT !.last_output_delta_c = output,
                                                    !.last_target_c = Some(target) ],
                                      measured_temp_c, now_ts_s)
        IN  [ decision |-> [ target_c |-> target, output_delta_c |-> output,
                             error_c |-> error_c,
                             reason |-> IF rate_limited THEN "rate_limited"
                                        ELSE IF latch.reason # None THEN Val(latch.reason)
                                        ELSE reason0,
                             rate_limited |-> rate_limited,
                             deadband_active |-> deadband_active,
                             heating_on |-> st_l.heating_on ],
              state |-> IF rate_limited THEN st_p
                        ELSE [ st_p EXCEPT !.last_sent_ts_s = Some(now_ts_s) ] ]

\* ====================================================================
\* Specification SpecPid: sequences of PidRegulator.step calls
\* ====================================================================
MaxPidCalls == 3
PidSetpoints == { 20 * Deg, NaN }
PidMeasured == { 19 * Deg, 20 * Deg, Inf }
PidDeltas == { 60, 300 }
PidModes == { "normal", "window_open", "force_off" }

InitPid ==
    /\ hcfg = RegulationConfigDefault
    /\ hmono = 0
    /\ hstate = PidStateFresh
    /\ hcalls = 0
    /\ hlast = None
    /\ CIdle

PidCall(user_setpoint_c, measured_temp_c, dt, mode) ==
    /\ hcalls < MaxPidCalls
    /\ LET t == hmono + dt
           r == PidStep(hcfg, hstate, user_setpoint_c, measured_temp_c, t,
                        mode = "window_open", mode = "force_off")
       IN  /\ hmono' = t
           /\ hstate' = r.state
           /\ hlast' = Some([ user_setpoint_c |-> user_setpoint_c,
                              measured_temp_c |-> measured_temp_c,
                              now_ts_s |-> t, mode |-> mode,
                              prev |-> hstate, decision |-> r.decision ])
    /\ hcalls' = hcalls + 1
    /\ UNCHANGED hcfg

PidNext ==
    \E sp \in PidSetpoints, m \in PidMeasured, dt \in PidDeltas, mode \in PidModes :
        PidCall(sp, m, dt, mode)

SpecPid == InitPid /\ [][PidNext /\ UNCHANGED cvars]_vars

\* --------------------------------------------------------------------
\* Claims about PidRegulator.step (checked under SpecPid)
\* --------------------------------------------------------------------
\* the last call was a plain step: neither force_off nor window_open
PlainStep == hlast # None /\ Val(hlast).mode = "normal"

\* C38: a plain step less than min_command_interval_s after a step that was
\* accepted as sent returns rate_limited with the previously stored target
\* and does not advance last_sent_ts_s; a plain step that is not rate
\* limited stamps last_sent_ts_s and is at least min_command_interval_s
\* after the last accepted one.
C38_RateLimitHoldsTarget ==
    PlainStep =>
        LET h == Val(hlast)
            sent == h.prev.last_sent_ts_s
            inside == sent # None
                      /\ h.now_ts_s - Val(sent) < hcfg.min_command_interval_s
        IN  /\ inside => /\ h.decision.rate_limited
                         /\ h.decision.target_c = Val(h.prev.last_target_c)
                         /\ hstate.last_sent_ts_s = sent
            /\ ~h.decision.rate_limited
                   => /\ hstate.last_sent_ts_s = Some(h.now_ts_s)
                      /\ sent # None
                           => h.now_ts_s - Val(sent) >= hcfg.min_command_interval_s

\* C38 witness: a step with valid inputs is held at the stored target, which
\* is not the setpoint, inside the interval.
C38_Witness ==
    /\ PlainStep
    /\ IsFinite(Val(hlast).user_setpoint_c) /\ IsFinite(Val(hlast).measured_temp_c)
    /\ Val(hlast).decision.reason = "rate_limited"
    /\ Val(hlast).decision.target_c # Val(hlast).user_setpoint_c
    /\ hstate.last_sent_ts_s # None
    /\ Val(hstate.last_sent_ts_s) < Val(hlast).now_ts_s

\* the last call had a non-finite setpoint or measurement
InvalidInput ==
    /\ hlast # None
    /\ ~IsFinite(Val(hlast).user_setpoint_c) \/ ~IsFinite(Val(hlast).measured_temp_c)

\* C39: a step with a non-finite setpoint or measurement returns reason
\* "invalid_input_fallback" with the last target (or, when there is none,
\* the setpoint clamped to the target range) and leaves every field of
\* PidState unchanged.
C39_InvalidInputFallback ==
    InvalidInput =>
        LET h == Val(hlast) IN
        /\ h.decision.reason = "invalid_input_fallback"
        /\ IF h.prev.last_target_c # None
           THEN h.decision.target_c = Val(h.prev.last_target_c)
           ELSE /\ h.decision.target_c >= hcfg.min_target_c
                /\ h.decision.target_c <= hcfg.max_target_c
                /\ IsFinite(h.user_setpoint_c)
                     => h.decision.target_c
                          = Max(hcfg.min_target_c, Min(hcfg.max_target_c, h.user_setpoint_c))
        /\ hstate = h.prev

\* C39 witness: the fallback on a regulator that has an integral, a stored
\* sample, a derivative estimate, a heating latch stamp and a sent command.
C39_Witness ==
    /\ InvalidInput
    /\ hstate.integral_term_c # 0
    /\ hstate.last_temp_c # None
    /\ hstate.has_dtemp_ema
    /\ hstate.heating_state_change_ts_s # None
    /\ hstate.last_sent_ts_s # None
    /\ Val(hlast).now_ts_s > Val(hstate.last_ts_s)

\* ====================================================================
\* pid.py: MinOnOffTimer (demand in thousandths of full heat)
\* ====================================================================
\* MinOnOffTimer(): the dataclass defaults
MinOnOffTimerDefault == [ min_on_s |-> 300, min_off_s |-> 300, demand_threshold |-> 50 ]
\* MinOnOffTimer(min_on_s=120.0)
MinOnOffTimerShortOn == [ MinOnOffTimerDefault EXCEPT !.min_on_s = 120 ]

\* the private fields after construction
MinOnOffTimerFresh == [ is_on |-> FALSE, last_transition_s |-> None ]

\* variant: the timer lets the state go off as soon as the demand drops
EffectiveIsOn_NoMinOn(t, st, now_s, demand) ==
    LET desired_on == demand >= t.demand_threshold
    IN  IF st.last_transition_s = None
        THEN [ result |-> desired_on,
               state |-> [ is_on |-> desired_on, last_transition_s |-> Some(now_s) ] ]
        ELSE
        LET elapsed == now_s - Val(st.last_transition_s)
        IN  IF st.is_on
            THEN IF ~desired_on
                 THEN [ result |-> FALSE,
                        state |-> [ is_on |-> FALSE, last_transition_s |-> Some(now_s) ] ]
                 ELSE [ result |-> TRUE, state |-> st ]
            ELSE IF desired_on /\ elapsed < t.min_off_s
                 THEN [ result |-> FALSE, state |-> st ]
                 ELSE IF desired_on /\ elapsed >= t.min_off_s
                 THEN [ result |-> TRUE,
                        state |-> [ is_on |-> TRUE, last_transition_s |-> Some(now_s) ] ]
                 ELSE [ result |-> FALSE, state |-> st ]

\* MinOnOffTimer.effective_is_on: the value returned and the fields it leaves
EffectiveIsOn(t, st, now_s, demand) ==
    LET desired_on == demand >= t.demand_threshold
    IN  IF st.last_transition_s = None
        THEN [ result |-> desired_on,
               state |-> [ is_on |-> desired_on, last_transition_s |-> Some(now_s) ] ]
        ELSE
        LET elapsed == now_s - Val(st.last_transition_s)
        IN  IF st.is_on
            THEN IF ~desired_on /\ elapsed < t.min_on_s
                 THEN [ result |-> TRUE, state |-> st ]
                 ELSE IF ~desired_on /\ elapsed >= t.min_on_s
                 THEN [ result |-> FALSE,
                        state |-> [ is_on |-> FALSE, last_transition_s |-> Some(now_s) ] ]
                 ELSE [ result |-> TRUE, state |-> st ]
            ELSE IF desired_on /\ elapsed < t.min_off_s
                 THEN [ result |-> FALSE, state |-> st ]
                 ELSE IF desired_on /\ elapsed >= t.min_off_s
                 THEN [ result |-> TRUE,
                        state |-> [ is_on |-> TRUE, last_transition_s |-> Some(now_s) ] ]
                 ELSE [ result |-> FALSE, state |-> st ]

\* ====================================================================
\* Specification SpecTimer: effective_is_on called with non-decreasing
\* timestamps
\* ====================================================================
MaxTimerCalls == 4
TimerDemands == { 0, 49, 50 }
TimerDeltas == { 0, 60, 120, 300 }

\* hlast records the call and, as history, the effective state before it and
\* the time of the call at which the effective state last changed
InitTimer ==
    /\ hcfg \in { MinOnOffTimerDefault, MinOnOffTimerShortOn }
    /\ hmono = 0
    /\ hstate = MinOnOffTimerFresh
    /\ hcalls = 0
    /\ hlast = Some([ called |-> FALSE, now_s |-> 0, demand |-> 0, was_on |-> FALSE,
                      result |-> FALSE, changed_before |-> None, changed_at |-> None ])
    /\ CIdle

TimerCall(dt, demand) ==
    /\ hcalls < MaxTimerCalls
    /\ LET t == hmono + dt
           h == Val(hlast)
           r == EffectiveIsOn(hcfg, hstate, t, demand)
       IN  /\ hmono' = t
           /\ hstate' = r.state
           /\ hlast' = Some([ called |-> TRUE, now_s |-> t, demand |-> demand,
                              was_on |-> h.result, result |-> r.result,
                              changed_before |-> h.changed_at,
                              changed_at |-> IF r.result # h.result THEN Some(t)
                                             ELSE h.changed_at ])
    /\ hcalls' = hcalls + 1
    /\ UNCHANGED hcfg

TimerNext == \E dt \in TimerDeltas, demand \in TimerDemands : TimerCall(dt, demand)

SpecTimer == InitTimer /\ [][TimerNext /\ UNCHANGED cvars]_vars

\* C40: with non-decreasing timestamps the effective state changes only in
\* a call whose demand is on the other side of demand_threshold and, once it
\* has changed before, only min_on_s (leaving on) or min_off_s (leaving off)
\* after that change; so it stays on for at least min_on_s and off for at
\* least min_off_s.
C40_MinOnOffRespected ==
    LET h == Val(hlast) IN
    /\ hstate.is_on = h.result
    /\ (h.called /\ h.result # h.was_on)
          => /\ h.result = (h.demand >= hcfg.demand_threshold)
             /\ h.changed_before # None
                  => h.now_s - Val(h.changed_before)
                       >= (IF h.was_on THEN hcfg.min_on_s ELSE hcfg.min_off_s)

\* C40 witness: the demand is below the threshold before min_on_s has
\* elapsed since the state turned on, and the effective state stays on.
C40_Witness ==
    LET h == Val(hlast) IN
    /\ h.called /\ h.was_on /\ h.result
    /\ h.demand < hcfg.demand_threshold
    /\ h.changed_before # None
    /\ h.now_s > Val(h.changed_before)
    /\ h.now_s - Val(h.changed_before) < hcfg.min_on_s
====
